---------------------------- MODULE Spec2Model ----------------------------
(***************************************************************************)
(* A model of the security.txt extractor of the Solana MCP server:         *)
(*   src/src/tools/security.ts              getSecurityTxtInfo and the      *)
(*                                          matcher cascade                 *)
(*   src/src/actions/security/getSecurityTxt.ts   the GET_SECURITY_TXT      *)
(*                                          action handler                  *)
(* Text is a TLA+ string and is matched character by character; account    *)
(* data is a sequence of bytes (0..255).                                    *)
(***************************************************************************)
EXTENDS Integers, Sequences, FiniteSets, TLC

VARIABLES
    chain,      \* the accounts of the chain the connection reads, by address
    calls,      \* GET_SECURITY_TXT handler invocations: call id -> its locals
    image,      \* the program image handed to findAndParseSecurityTxt
    found,      \* what findAndParseSecurityTxt returned for `image`
    status,     \* "" before the search of `image`, the handler's status after it
    scanned,    \* << >>, or <<what the heuristic scanner extracts from `image`>>
    block,      \* a security.txt block and what surrounds it in a program image
    extracted,  \* per embedding of `block`: << >>, or <<the mapping extracted>>
    history,    \* the GET_TRANSACTION_HISTORY handler invocation: its locals
    parsed,     \* the lines given to parseSecurityTxt and <<its result>>
    fee,        \* the GET_PRIORITY_FEE_ESTIMATE handler invocation: its locals
    startup     \* the process: its environment and where main() stands

vars == <<chain, calls, image, found, status, scanned, block, extracted, history,
          parsed, fee, startup>>

---------------------------------------------------------------------------
(* Strings.  Indices are 1-based; Char(s, i) is JavaScript's s[i-1].       *)

Min(S) == CHOOSE x \in S : \A y \in S : x <= y
Max(S) == CHOOSE x \in S : \A y \in S : x >= y

Char(s, i) == IF 1 <= i /\ i <= Len(s) THEN SubSeq(s, i, i) ELSE ""

CharsOf(s) == { SubSeq(s, i, i) : i \in 1..Len(s) }

\* true when the literal lit occurs in s at index i
LooksAt(s, i, lit) ==
    /\ i >= 1
    /\ i + Len(lit) - 1 <= Len(s)
    /\ SubSeq(s, i, i + Len(lit) - 1) = lit

LowerLetters == "abcdefghijklmnopqrstuvwxyz"
UpperLetters == "ABCDEFGHIJKLMNOPQRSTUVWXYZ"
Digits       == "0123456789"

LowerSet  == CharsOf(LowerLetters)
UpperSet  == CharsOf(UpperLetters)
LetterSet == LowerSet \cup UpperSet
DigitSet  == CharsOf(Digits)

\* the characters String.prototype.trim removes and \s matches, among the
\* characters the model's texts are made of
WhiteSpace == {" ", "\t", "\n", "\r", "\f"}

\* the line terminators the regular-expression dot does not match
LineTerminators == {"\n", "\r"}

\* The element of a set of one element.  Only({ e(v) : v \in {d} }) is e
\* with v standing for the value of d, which is computed once.
Only(S) == CHOOSE r \in S : TRUE

\* the index of the character c in the string letters that has it
IndexOf(letters, c) == CHOOSE k \in 1..Len(letters) : SubSeq(letters, k, k) = c

LowerOf(c) == Only({ SubSeq(LowerLetters, i, i) : i \in { IndexOf(UpperLetters, c) } })
UpperOf(c) == Only({ SubSeq(UpperLetters, i, i) : i \in { IndexOf(LowerLetters, c) } })

\* the concatenation of Piece(x, lo), ..., Piece(x, hi), built by halves
RECURSIVE Join(_, _, _, _)
Join(Piece(_, _), x, lo, hi) ==
    IF lo > hi THEN ""
    ELSE IF lo = hi THEN Piece(x, lo)
    ELSE LET mid == (lo + hi) \div 2
         IN  Join(Piece, x, lo, mid) \o Join(Piece, x, mid + 1, hi)

LowerCaseChar(s, i) ==
    IF Char(s, i) \in UpperSet THEN LowerOf(Char(s, i)) ELSE Char(s, i)

\* String.prototype.toLowerCase
toLowerCase(s) == Join(LowerCaseChar, s, 1, Len(s))

\* String.prototype.trim
trim(s) ==
    LET keep == { i \in 1..Len(s) : Char(s, i) \notin WhiteSpace }
    IN  IF keep = {} THEN "" ELSE SubSeq(s, Min(keep), Max(keep))

\* String.prototype.split('\n')
RECURSIVE split(_)
split(s) ==
    LET nl == { i \in 1..Len(s) : Char(s, i) = "\n" }
    IN  IF nl = {} THEN <<s>>
        ELSE <<SubSeq(s, 1, Min(nl) - 1)>> \o split(SubSeq(s, Min(nl) + 1, Len(s)))

\* the last index of the longest run of characters of Class that starts at
\* index i (i - 1 when s[i] is not in Class): a greedy Class* from i
RunEnd(s, i, Class) ==
    LET stop == { k \in i..Len(s) : Char(s, k) \notin Class }
    IN  IF stop = {} THEN Len(s) ELSE Min(stop) - 1

---------------------------------------------------------------------------
(* SecurityTxtInfo: a mapping from field name to string.  The empty        *)
(* function is the empty object {}.                                         *)

EmptyInfo == << >>

\* info[key] = value: the key is added, or its value replaced
SetField(info, key, value) == (key :> value) @@ info

ObjectKeys(info) == DOMAIN info

---------------------------------------------------------------------------
(* parseSecurityTxt, security.ts:127-153                                    *)

\* fieldName.replace(/-([a-z])/g, (_, letter) => letter.toUpperCase())
RECURSIVE camelCase(_)
camelCase(s) ==
    IF s = "" THEN ""
    ELSE IF Char(s, 1) = "-" /\ Char(s, 2) \in LowerSet
         THEN UpperOf(Char(s, 2)) \o camelCase(SubSeq(s, 3, Len(s)))
         ELSE SubSeq(s, 1, 1) \o camelCase(SubSeq(s, 2, Len(s)))

\* A faulty variant of FieldMatch for /^(.+):\s*(.*)$/, whose greedy first
\* group runs to the last colon of the line.
FieldMatchAtLastColon(line) ==
    LET colons == { i \in 1..Len(line) : Char(line, i) = ":" }
    IN  IF colons = {} \/ Max(colons) = 1 THEN << >>
        ELSE LET c  == Max(colons)
                 v0 == RunEnd(line, c + 1, WhiteSpace) + 1
             IN  IF \E k \in 1..Len(line) : Char(line, k) \in LineTerminators
                 THEN << >>
                 ELSE <<SubSeq(line, 1, c - 1), SubSeq(line, v0, Len(line))>>

\* line.match(/^([^:]+):\s*(.*)$/): <<field, value>>, or << >> for null.
\* [^:]+ stops at the first colon and needs one character before it; \s*
\* takes the white space after the colon; (.*)$ must reach the end of the
\* line, which it cannot when a line terminator follows.
FieldMatch(line) ==
    LET colons == { i \in 1..Len(line) : Char(line, i) = ":" }
    IN  IF colons = {} \/ Min(colons) = 1 THEN << >>
        ELSE LET c  == Min(colons)
                 v0 == RunEnd(line, c + 1, WhiteSpace) + 1
             IN  IF \E k \in v0..Len(line) : Char(line, k) \in LineTerminators
                 THEN << >>
                 ELSE <<SubSeq(line, 1, c - 1), SubSeq(line, v0, Len(line))>>

\* one iteration of the for loop over the lines
ParseLine(result, line) ==
    IF trim(line) = "" \/ LooksAt(trim(line), 1, "#") THEN result
    ELSE LET match == FieldMatch(line)
         IN  IF match = << >> THEN result
             ELSE LET fieldName == toLowerCase(trim(match[1]))
                      camelCaseField == camelCase(fieldName)
                  IN  SetField(result, camelCaseField, trim(match[2]))

RECURSIVE ParseLines(_, _, _)
ParseLines(result, lines, i) ==
    IF i > Len(lines) THEN result
    ELSE ParseLines(ParseLine(result, lines[i]), lines, i + 1)

parseSecurityTxt(content) == ParseLines(EmptyInfo, split(content), 1)

---------------------------------------------------------------------------
(* The matchers of findAndParseSecurityTxt, security.ts:86-104.  A matcher *)
(* gives the text of capture group 1 of the first (leftmost) match as      *)
(* <<group>>, or << >> when String.prototype.match returns null.  The /i   *)
(* patterns are matched against the lower-cased text; the text's           *)
(* characters are ASCII or stand-ins, for which that is what /i does.      *)

NoMatch == << >>

\* /(?:^|\n)# ?security\.txt(?:\n|$)/i tried at index p: the index after the
\* header, 0 when the header does not match at p
StandardHeaderEnd(low, p) ==
    LET a == IF p = 1 /\ Char(low, 1) = "#" THEN 1              \* ^
             ELSE IF Char(low, p) = "\n" THEN p + 1 ELSE 0      \* \n
        b == IF a # 0 /\ Char(low, a) = "#" THEN a + 1 ELSE 0
        withSpace == IF b # 0 /\ Char(low, b) = " "
                        /\ LooksAt(low, b + 1, "security.txt")
                     THEN b + 13 ELSE 0
        without   == IF b # 0 /\ LooksAt(low, b, "security.txt")
                     THEN b + 12 ELSE 0
        d == IF withSpace # 0 THEN withSpace ELSE without
    IN  IF d = 0 THEN 0
        ELSE IF Char(low, d) = "\n" THEN d + 1                  \* \n
        ELSE IF d = Len(low) + 1 THEN d                         \* $
        ELSE 0

\* Pattern 1:
\* /(?:^|\n)# ?security\.txt(?:\n|$)([\s\S]*?)(?:\n\n|\n#|$)/i
\* << >> when it does not match, else <<from, stop>>: the group is
\* text[from .. stop - 1]
StandardSpan(text) ==
    LET starts(low) == { p \in 1..Len(text) : StandardHeaderEnd(low, p) # 0 }
        \* the lazy group stops at the first \n\n, \n# or end of text
        stop(from) == Min({ k \in from..(Len(text) + 1) :
                               \/ LooksAt(text, k, "\n\n")
                               \/ LooksAt(text, k, "\n#")
                               \/ k = Len(text) + 1 })
    IN  Only({ IF starts(low) = {} THEN << >>
               ELSE Only({ <<from, stop(from)>> :
                              from \in { StandardHeaderEnd(low, Min(starts(low))) } }) :
               low \in { toLowerCase(text) } })

\* A faulty variant of StandardBlock whose group is ([^\n]*): the first line
\* after the header only.
StandardBlockFirstLine(text) ==
    LET span == StandardSpan(text)
    IN  IF span = << >> THEN NoMatch
        ELSE <<SubSeq(text, span[1], RunEnd(text, span[1], CharsOf(text) \ {"\n"}))>>

StandardBlock(text) ==
    LET span == StandardSpan(text)
    IN  IF span = << >> THEN NoMatch
        ELSE <<SubSeq(text, span[1], span[2] - 1)>>

BeginMarker == "-----begin security.txt-----"
EndMarker   == "-----end security.txt-----"

\* Pattern 2:
\* /-----BEGIN SECURITY\.TXT-----([\s\S]*?)-----END SECURITY\.TXT-----/i
DelimitedBlock(text) ==
    LET Match(ends, begins) ==
            LET starts == { p \in begins : \E k \in ends : k >= p + Len(BeginMarker) }
            IN  IF starts = {} THEN NoMatch
                ELSE LET from == Min(starts) + Len(BeginMarker)
                         stop == Min({ k \in ends : k >= from })
                     IN  <<SubSeq(text, from, stop - 1)>>
    IN  Only({ Only({ Match(ends, begins) :
                         ends   \in { { k \in 1..Len(text) : LooksAt(low, k, EndMarker) } },
                         begins \in { { p \in 1..Len(text) : LooksAt(low, p, BeginMarker) } } }) :
               low \in { toLowerCase(text) } })

\* /<label>([^\n]+)/i for a literal label: the rest of the line after the
\* first occurrence of the label that has a character other than \n after it
LabelledLine(text, label) ==
    LET Match(starts) ==
            IF starts = {} THEN NoMatch
            ELSE LET from == Min(starts) + Len(label)
                 IN  <<SubSeq(text, from, RunEnd(text, from, CharsOf(text) \ {"\n"}))>>
    IN  Only({ Match({ p \in 1..Len(text) :
                          /\ LooksAt(low, p, label)
                          /\ Char(text, p + Len(label)) \notin {"", "\n"} }) :
               low \in { toLowerCase(text) } })

LocalPartChars == LetterSet \cup DigitSet \cup {".", "_", "%", "+", "-"}
DomainChars    == LetterSet \cup DigitSet \cup {".", "-"}

\* [a-zA-Z0-9.-]+\.[a-zA-Z]{2,} tried at index d: the index of its last
\* character, 0 when it does not match.  The greedy domain run gives back
\* characters until a dot with two letters after it is found; the greedy
\* {2,} then takes every letter that follows.
DomainEnd(s, d) ==
    LET r    == RunEnd(s, d, DomainChars)
        dots == { k \in (d + 1)..r :
                     /\ Char(s, k) = "."
                     /\ Char(s, k + 1) \in LetterSet
                     /\ Char(s, k + 2) \in LetterSet }
    IN  IF dots = {} THEN 0 ELSE RunEnd(s, Max(dots) + 1, LetterSet)

\* [a-zA-Z0-9._%+-]+@[a-zA-Z0-9.-]+\.[a-zA-Z]{2,} tried at index p
AddressEnd(s, p) ==
    LET l == RunEnd(s, p, LocalPartChars)
    IN  IF l < p \/ Char(s, l + 1) # "@" THEN 0 ELSE DomainEnd(s, l + 2)

\* /mailto:([a-zA-Z0-9._%+-]+@[a-zA-Z0-9.-]+\.[a-zA-Z]{2,})/i
MailtoField(text) ==
    LET Match(starts) ==
            IF starts = {} THEN NoMatch
            ELSE LET from == Min(starts) + 7
                 IN  <<SubSeq(text, from, AddressEnd(text, from))>>
    IN  Only({ Match({ p \in 1..Len(text) :
                          LooksAt(low, p, "mailto:") /\ AddressEnd(text, p + 7) # 0 }) :
               low \in { toLowerCase(text) } })

\* Pattern 3, the || chain of security.ts:102-104
SingleField(text) ==
    IF LabelledLine(text, "contact: ") # NoMatch
    THEN LabelledLine(text, "contact: ")
    ELSE IF LabelledLine(text, "security-contact: ") # NoMatch
    THEN LabelledLine(text, "security-contact: ")
    ELSE MailtoField(text)

---------------------------------------------------------------------------
(* extractSecurityInfoFromText, security.ts:161-186                         *)

\* text.match(/.../g) || []: every match, left to right, without overlap.
\* EndAt(t, p) is the index of the last character of the match that starts
\* at p, 0 when the pattern does not match there.
RECURSIVE MatchAll(_, _, _)
MatchAll(EndAt(_, _), text, from) ==
    LET starts == { p \in from..Len(text) : EndAt(text, p) # 0 }
    IN  IF starts = {} THEN << >>
        ELSE LET p == Min(starts)
             IN  <<SubSeq(text, p, EndAt(text, p))>>
                     \o MatchAll(EndAt, text, EndAt(text, p) + 1)

\* A faulty variant of SecurityEmailEnd that takes any address, not only
\* the addresses of the mailbox security.
AnyEmailEnd(text, p) == AddressEnd(text, p)

\* /security@[a-zA-Z0-9.-]+\.[a-zA-Z]{2,}/g
SecurityEmailEnd(text, p) ==
    IF LooksAt(text, p, "security@") THEN DomainEnd(text, p + 9) ELSE 0

\* /mailto:[a-zA-Z0-9._%+-]+@[a-zA-Z0-9.-]+\.[a-zA-Z]{2,}/g
MailtoUriEnd(text, p) ==
    IF LooksAt(text, p, "mailto:") THEN AddressEnd(text, p + 7) ELSE 0

\* /https?:\/\/[a-zA-Z0-9.-]+\.[a-zA-Z]{2,}<path>/g for a literal path.  The
\* path starts with "/", which no host character is, so the letters of
\* {2,} must end where the run of host characters ends.
UrlEnd(text, p, path) ==
    LET h == IF LooksAt(text, p, "https://") THEN p + 8
             ELSE IF LooksAt(text, p, "http://") THEN p + 7 ELSE 0
        r == RunEnd(text, h, DomainChars)
    IN  IF /\ h # 0
           /\ \E k \in (h + 1)..(r - 2) :
                 /\ Char(text, k) = "."
                 /\ \A j \in (k + 1)..r : Char(text, j) \in LetterSet
           /\ LooksAt(text, r + 1, path)
        THEN r + Len(path) ELSE 0

SecurityUrlEnd(text, p)      == UrlEnd(text, p, "/security")
DisclosureUrlEnd(text, p)    == UrlEnd(text, p, "/responsible-disclosure")
VulnerabilityUrlEnd(text, p) == UrlEnd(text, p, "/vulnerability")

PgpBegin == "-----BEGIN PGP PUBLIC KEY BLOCK-----"
PgpEnd   == "-----END PGP PUBLIC KEY BLOCK-----"

\* A faulty variant of PgpBlockPresent that looks for the two markers in
\* any order.
PgpMarkersPresent(text) ==
    /\ \E p \in 1..Len(text) : LooksAt(text, p, PgpBegin)
    /\ \E k \in 1..Len(text) : LooksAt(text, k, PgpEnd)

\* text.match(/-----BEGIN PGP PUBLIC KEY BLOCK-----([\s\S]*?)-----END PGP
\* PUBLIC KEY BLOCK-----/g) is not null
PgpBlockPresent(text) ==
    \E p \in 1..Len(text) :
        /\ LooksAt(text, p, PgpBegin)
        /\ \E k \in (p + Len(PgpBegin))..Len(text) : LooksAt(text, k, PgpEnd)

PgpSentinel == "PGP key found in program data"

\* A faulty variant of ContactMatches that orders the matches of the five
\* patterns by their position in the text.
ContactMatchesInTextOrder(text) ==
    LET EndAny(p) == Max({ SecurityEmailEnd(text, p), MailtoUriEnd(text, p),
                           SecurityUrlEnd(text, p), DisclosureUrlEnd(text, p),
                           VulnerabilityUrlEnd(text, p) })
        starts == { p \in 1..Len(text) : EndAny(p) # 0 }
    IN  IF starts = {} THEN << >>
        ELSE <<SubSeq(text, Min(starts), EndAny(Min(starts)))>>

\* the spread of the five match lists, security.ts:165-173
ContactMatches(text) ==
    MatchAll(SecurityEmailEnd, text, 1)
        \o MatchAll(MailtoUriEnd, text, 1)
        \o MatchAll(SecurityUrlEnd, text, 1)
        \o MatchAll(DisclosureUrlEnd, text, 1)
        \o MatchAll(VulnerabilityUrlEnd, text, 1)

extractSecurityInfoFromText(text) ==
    LET contactMatches == ContactMatches(text)
        r1 == IF Len(contactMatches) > 0
              THEN SetField(EmptyInfo, "contact", contactMatches[1])
              ELSE EmptyInfo
    IN  IF PgpBlockPresent(text) THEN SetField(r1, "encryption", PgpSentinel)
        ELSE r1

---------------------------------------------------------------------------
(* new TextDecoder().decode(programData), security.ts:84: UTF-8, not       *)
(* fatal, a leading byte order mark dropped.  A byte below 128 decodes to  *)
(* its ASCII character.  Three characters no pattern of the program        *)
(* mentions stand for the characters a TLA+ string cannot hold: the        *)
(* model's images do not contain the bytes of these three themselves.      *)

\* the ASCII characters 32..95 and 97..126
PrintableLow  ==
    " !\"#$%&'()*+,-./0123456789:;<=>?@ABCDEFGHIJKLMNOPQRSTUVWXYZ[\\]^_"
PrintableHigh == "abcdefghijklmnopqrstuvwxyz{|}~"

Replacement == "|"    \* stands for U+FFFD
OtherAscii  == "^"    \* stands for a control character other than \t \n \f \r,
                      \* and for the grave accent
NonAscii    == "~"    \* stands for a UTF-16 code unit above 127

AsciiChar(b) ==
    IF b >= 32 /\ b <= 95 THEN SubSeq(PrintableLow, b - 31, b - 31)
    ELSE IF b >= 97 /\ b <= 126 THEN SubSeq(PrintableHigh, b - 96, b - 96)
    ELSE IF b = 9  THEN "\t"
    ELSE IF b = 10 THEN "\n"
    ELSE IF b = 12 THEN "\f"
    ELSE IF b = 13 THEN "\r"
    ELSE OtherAscii

\* the number of continuation bytes the lead byte b asks for, 0 for a byte
\* that starts no sequence
Utf8Needed(b) ==
    IF b >= 194 /\ b <= 223 THEN 1
    ELSE IF b >= 224 /\ b <= 239 THEN 2
    ELSE IF b >= 240 /\ b <= 244 THEN 3
    ELSE 0

\* the range the first continuation byte after lead byte b must lie in
Utf8Lower(b) == IF b = 224 THEN 160 ELSE IF b = 240 THEN 144 ELSE 128
Utf8Upper(b) == IF b = 237 THEN 159 ELSE IF b = 244 THEN 143 ELSE 191

\* the number of continuation bytes present at i+1.. that continue lead b
Utf8Have(bytes, i, b) ==
    LET ok(j) == /\ i + j <= Len(bytes)
                 /\ bytes[i + j] >= (IF j = 1 THEN Utf8Lower(b) ELSE 128)
                 /\ bytes[i + j] <= (IF j = 1 THEN Utf8Upper(b) ELSE 191)
        bad == { j \in 1..Utf8Needed(b) : ~ok(j) }
    IN  IF bad = {} THEN Utf8Needed(b) ELSE Min(bad) - 1

\* A lead byte is never a continuation byte, so every lead byte starts a
\* sequence, and byte i belongs to the sequence of a lead byte before it
\* exactly when that lead byte's continuation bytes reach i.
Utf8Continues(bytes, i) ==
    \E j \in (i - 3)..(i - 1) :
        /\ j >= 1
        /\ Utf8Needed(bytes[j]) > 0
        /\ i <= j + Utf8Have(bytes, j, bytes[j])

\* what the decoder emits for the sequence that starts at byte i
Utf8Emit(bytes, i) ==
    LET b == bytes[i]
    IN  IF Utf8Continues(bytes, i) THEN ""
        ELSE IF b <= 127 THEN AsciiChar(b)
        ELSE IF Utf8Needed(b) = 0 THEN Replacement
        \* a sequence cut short: one U+FFFD for the part read
        ELSE IF Utf8Have(bytes, i, b) < Utf8Needed(b) THEN Replacement
        ELSE IF Utf8Needed(b) = 3 THEN NonAscii \o NonAscii   \* a surrogate pair
        ELSE NonAscii

TextDecode(bytes) ==
    IF Len(bytes) >= 3 /\ SubSeq(bytes, 1, 3) = <<239, 187, 191>>
    THEN Join(Utf8Emit, bytes, 4, Len(bytes))
    ELSE Join(Utf8Emit, bytes, 1, Len(bytes))

---------------------------------------------------------------------------
(* findAndParseSecurityTxt, security.ts:80-119.  Nothing in the try block  *)
(* can throw on a decoded string, so the catch branch is never taken.      *)

\* A faulty variant of Cascade that goes on after the standard block and
\* adds the contact of the single field to the block's mapping.
CascadeMerging(dataString) ==
    LET securityTxtMatch      == StandardBlock(dataString)
        securityTxtBlockMatch == DelimitedBlock(dataString)
        fieldMatch            == SingleField(dataString)
    IN  IF securityTxtMatch # NoMatch /\ securityTxtMatch[1] # ""
        THEN IF fieldMatch # NoMatch
             THEN SetField(parseSecurityTxt(securityTxtMatch[1]), "contact",
                           trim(fieldMatch[1]))
             ELSE parseSecurityTxt(securityTxtMatch[1])
        ELSE IF securityTxtBlockMatch # NoMatch /\ securityTxtBlockMatch[1] # ""
        THEN parseSecurityTxt(securityTxtBlockMatch[1])
        ELSE IF fieldMatch # NoMatch
        THEN SetField(EmptyInfo, "contact", trim(fieldMatch[1]))
        ELSE extractSecurityInfoFromText(dataString)

\* A faulty variant of Cascade that runs the scanner on every text and adds
\* what it found to the result of the matcher that matched.
CascadeAlwaysScanning(dataString) ==
    LET securityTxtMatch      == StandardBlock(dataString)
        securityTxtBlockMatch == DelimitedBlock(dataString)
        fieldMatch            == SingleField(dataString)
        scan                  == extractSecurityInfoFromText(dataString)
    IN  IF securityTxtMatch # NoMatch /\ securityTxtMatch[1] # ""
        THEN parseSecurityTxt(securityTxtMatch[1]) @@ scan
        ELSE IF securityTxtBlockMatch # NoMatch /\ securityTxtBlockMatch[1] # ""
        THEN parseSecurityTxt(securityTxtBlockMatch[1]) @@ scan
        ELSE IF fieldMatch # NoMatch
        THEN SetField(EmptyInfo, "contact", trim(fieldMatch[1])) @@ scan
        ELSE scan

\* A faulty variant of Cascade that goes on to the next matcher when the
\* standard block has given no field.
CascadeFallingThrough(dataString) ==
    LET securityTxtMatch      == StandardBlock(dataString)
        securityTxtBlockMatch == DelimitedBlock(dataString)
        fieldMatch            == SingleField(dataString)
    IN  IF /\ securityTxtMatch # NoMatch /\ securityTxtMatch[1] # ""
           /\ parseSecurityTxt(securityTxtMatch[1]) # EmptyInfo
        THEN parseSecurityTxt(securityTxtMatch[1])
        ELSE IF securityTxtBlockMatch # NoMatch /\ securityTxtBlockMatch[1] # ""
        THEN parseSecurityTxt(securityTxtBlockMatch[1])
        ELSE IF fieldMatch # NoMatch
        THEN SetField(EmptyInfo, "contact", trim(fieldMatch[1]))
        ELSE extractSecurityInfoFromText(dataString)

\* the cascade on the decoded text, security.ts:86-113
Cascade(dataString) ==
    LET securityTxtMatch      == StandardBlock(dataString)
        securityTxtBlockMatch == DelimitedBlock(dataString)
        fieldMatch            == SingleField(dataString)
    IN  IF securityTxtMatch # NoMatch /\ securityTxtMatch[1] # ""
        THEN parseSecurityTxt(securityTxtMatch[1])
        ELSE IF securityTxtBlockMatch # NoMatch /\ securityTxtBlockMatch[1] # ""
        THEN parseSecurityTxt(securityTxtBlockMatch[1])
        ELSE IF fieldMatch # NoMatch
        THEN SetField(EmptyInfo, "contact", trim(fieldMatch[1]))
        ELSE extractSecurityInfoFromText(dataString)

\* A faulty variant of findAndParseSecurityTxt whose decoder is fatal: a
\* byte that is not ASCII makes it throw, and the catch of security.ts:114
\* returns the empty mapping.
FatalDecoder(programData) ==
    IF \E i \in 1..Len(programData) : programData[i] >= 128
    THEN EmptyInfo
    ELSE Cascade(TextDecode(programData))

findAndParseSecurityTxt(programData) ==
    Only({ Cascade(dataString) : dataString \in { TextDecode(programData) } })

---------------------------------------------------------------------------
(* new PublicKey(value), the constructor of @solana/web3.js that           *)
(* getSecurityTxt.ts:49 and security.ts:35,47 call.  A key is its 32 bytes. *)

\* acc after Step(x, acc, lo), Step(x, ., lo + 1), ..., Step(x, ., hi), in
\* this order
RECURSIVE Iterate(_, _, _, _, _)
Iterate(Step(_, _, _), x, acc, lo, hi) ==
    IF lo > hi THEN acc
    ELSE IF lo = hi THEN Step(x, acc, lo)
    ELSE LET mid == (lo + hi) \div 2
         IN  Only({ Iterate(Step, x, left, mid + 1, hi) :
                       left \in { Iterate(Step, x, acc, lo, mid) } })

\* n zero bytes
Zeroes(n) == SubSeq([i \in 1..n |-> 0], 1, n)

Base58Alphabet == "123456789ABCDEFGHJKLMNPQRSTUVWXYZabcdefghijkmnopqrstuvwxyz"
Base58Chars    == CharsOf(Base58Alphabet)
Base58Digit(c) == IndexOf(Base58Alphabet, c) - 1

PUBLIC_KEY_LENGTH == 32

\* bs58.decode: one round of the inner loop of base-x, on the n-th byte
\* from the end of the big-endian bytes
Base58Carry(size, acc, n) ==
    LET it == size + 1 - n
        v  == acc.carry + 58 * acc.bytes[it]
    IN  [bytes |-> [acc.bytes EXCEPT ![it] = v % 256], carry |-> v \div 256]

\* bs58.decode: the body of the loop over the characters,
\* b256 := b256 * 58 + the digit of source[i]
Base58MulAdd(source, b256, i) ==
    Iterate(Base58Carry, Len(b256),
            [bytes |-> b256, carry |-> Base58Digit(Char(source, i))],
            1, Len(b256)).bytes

\* bs58.decode(source): <<bytes>>, or << >> when it throws 'Non-base58
\* character'.  Each leading "1" is a zero byte; the rest is the number the
\* digits spell, without leading zero bytes.
bs58decode(source) ==
    IF \E i \in 1..Len(source) : Char(source, i) \notin Base58Chars THEN << >>
    ELSE LET zeroes == Min({ i \in 1..(Len(source) + 1) : Char(source, i) # "1" }) - 1
             size   == ((Len(source) - zeroes) * 733) \div 1000 + 1
             b256   == Iterate(Base58MulAdd, source, Zeroes(size),
                               zeroes + 1, Len(source))
             first  == Min({ i \in 1..(size + 1) : i = size + 1 \/ b256[i] # 0 })
         IN  << Zeroes(zeroes) \o SubSeq(b256, first, size) >>

\* A faulty variant of PublicKeyOfString that takes a decoded string of any
\* length, as the constructor takes short bytes.
PublicKeyOfAnyLength(value) ==
    LET decoded == bs58decode(value)
    IN  IF decoded = << >> THEN << >>
        ELSE IF Len(decoded[1]) > PUBLIC_KEY_LENGTH THEN << >>
        ELSE <<Zeroes(PUBLIC_KEY_LENGTH - Len(decoded[1])) \o decoded[1]>>

\* new PublicKey(string): <<key>>, or << >> when the constructor throws
PublicKeyOfString(value) ==
    LET decoded == bs58decode(value)
    IN  IF decoded = << >> THEN << >>
        ELSE IF Len(decoded[1]) # PUBLIC_KEY_LENGTH THEN << >>
        ELSE decoded

\* new PublicKey(bytes): the bytes are a big-endian number, which must fit
\* 32 bytes; the key is the number written on 32 bytes
PublicKeyOfBytes(value) ==
    LET first   == Min({ i \in 1..(Len(value) + 1) :
                            i = Len(value) + 1 \/ value[i] # 0 })
        numeric == SubSeq(value, first, Len(value))
    IN  IF Len(numeric) > PUBLIC_KEY_LENGTH THEN << >>
        ELSE << Zeroes(PUBLIC_KEY_LENGTH - Len(numeric)) \o numeric >>

\* the message of the error new PublicKey(string) throws
PublicKeyError(value) ==
    IF bs58decode(value) = << >> THEN "Non-base58 character"
    ELSE "Invalid public key input"

\* security.ts:35
BPF_UPGRADEABLE_LOADER_ID ==
    PublicKeyOfString("BPFLoaderUpgradeab1e11111111111111111111111")[1]

\* Buffer.prototype.slice(start, end) with 0-based start and exclusive end
BufferSlice(data, start, end) ==
    SubSeq(data, start + 1, IF end < Len(data) THEN end ELSE Len(data))

---------------------------------------------------------------------------
(* The accounts connection.getAccountInfo can return.  The chain is an     *)
(* input of the program: a fixed set of accounts of every layout the       *)
(* resolver distinguishes.                                                  *)

\* the bytes of an ASCII string, as a program binary holds them
AsciiCode(c) == CHOOSE b \in 0..127 : AsciiChar(b) = c

TextEncode(s) == SubSeq([i \in 1..Len(s) |-> AsciiCode(Char(s, i))], 1, Len(s))

Key(id) == PublicKeyOfString(id)[1]

\* the key whose 32 bytes are 0, ..., 0, k
SmallKey(k) == Zeroes(PUBLIC_KEY_LENGTH - 1) \o <<k>>

NullAccount == [present |-> FALSE, owner |-> << >>, data |-> << >>]
Account(owner, data) == [present |-> TRUE, owner |-> owner, data |-> data]

\* the loader of programs that cannot be upgraded
BpfLoader2 == Key("BPFLoader2111111111111111111111111111111111")

\* machine code around the embedded text: bytes that are not text
ElfHeader == <<127, 69, 76, 70, 2, 1, 1, 0>>
Padding   == <<0, 0, 255, 254>>

\* the header of a program-data account: 8 bytes, then the image
ProgramDataHeader == <<3, 0, 0, 0, 0, 0, 0, 0>>

StandardImage ==
    ElfHeader \o TextEncode("\n# security.txt\ncontact: mailto:sec@example.com\nexpires: 2025-01-01\n\n")
        \o Padding
DelimitedImage ==
    ElfHeader \o TextEncode("-----BEGIN SECURITY.TXT-----\nPreferred-Languages: en\n-----END SECURITY.TXT-----")
        \o Padding
HeuristicImage ==
    ElfHeader \o TextEncode("reach us at security@example.org for issues") \o Padding
PlainImage ==
    ElfHeader \o TextEncode("Program log: Instruction") \o Padding

\* a program-data account whose first 8 bytes spell the start of a header line
HeaderInHeaderData ==
    TextEncode("contact:") \o TextEncode(" ops@example.com\n")

\* program identity strings and the accounts stored under them
TokenProgram      == "TokenkegQfeZyiNwAJbNbGKPFXCWuBvf9Ss623VQ5DA"
DirectDelimited   == "1111111111111111111111111111111A"
DirectHeuristic   == "1111111111111111111111111111111B"
DirectPlain       == "1111111111111111111111111111111C"
DirectEmpty       == "1111111111111111111111111111111D"
DirectTagged      == "1111111111111111111111111111111P"
Upgradeable       == "1111111111111111111111111111111E"
UpgradeablePlain  == "1111111111111111111111111111111F"
DanglingProgram   == "1111111111111111111111111111111G"
WideTagProgram    == "1111111111111111111111111111111H"
ShortProgram      == "1111111111111111111111111111111J"
TagOnlyProgram    == "1111111111111111111111111111111K"
EmptyLoaderOwned  == "1111111111111111111111111111111L"
ShortDataProgram  == "1111111111111111111111111111111M"
HeaderTextProgram == "1111111111111111111111111111111N"
ProgramDataId     == "1111111111111111111111111111111Z"
UnknownProgram    == "1111111111111111111111111111111z"

ProgramDataKey     == Key(ProgramDataId)
PlainDataKey       == SmallKey(40)
MissingDataKey     == SmallKey(41)
ShortDataKey       == SmallKey(42)
HeaderTextDataKey  == SmallKey(43)

\* an upgradeable-loader Program account: the 4-byte tag, then the address
ProgramAccountData(tag, address) == tag \o address

Chain ==
    ( Key(TokenProgram)    :> Account(BpfLoader2, StandardImage) )
 @@ ( Key(DirectDelimited) :> Account(BpfLoader2, DelimitedImage) )
 @@ ( Key(DirectHeuristic) :> Account(BpfLoader2, HeuristicImage) )
 @@ ( Key(DirectPlain)     :> Account(BpfLoader2, PlainImage) )
 @@ ( Key(DirectEmpty)     :> Account(BpfLoader2, << >>) )
    \* not of the upgradeable loader, yet its data starts with the Program tag
 @@ ( Key(DirectTagged)    :> Account(BpfLoader2,
                                <<2, 0, 0, 0>> \o TextEncode("Contact: a@b.io\n")) )
 @@ ( Key(Upgradeable)     :> Account(BPF_UPGRADEABLE_LOADER_ID,
                                ProgramAccountData(<<2, 0, 0, 0>>, ProgramDataKey)) )
 @@ ( Key(UpgradeablePlain) :> Account(BPF_UPGRADEABLE_LOADER_ID,
                                ProgramAccountData(<<2, 0, 0, 0>>, PlainDataKey)) )
 @@ ( Key(DanglingProgram) :> Account(BPF_UPGRADEABLE_LOADER_ID,
                                ProgramAccountData(<<2, 0, 0, 0>>, MissingDataKey)) )
 @@ ( Key(WideTagProgram)  :> Account(BPF_UPGRADEABLE_LOADER_ID,
                                ProgramAccountData(<<2, 1, 0, 0>>, ProgramDataKey)) )
    \* the address is cut short: 4 + 1 bytes
 @@ ( Key(ShortProgram)    :> Account(BPF_UPGRADEABLE_LOADER_ID,
                                <<2, 0, 0, 0>> \o <<ProgramDataKey[PUBLIC_KEY_LENGTH]>>) )
 @@ ( Key(TagOnlyProgram)  :> Account(BPF_UPGRADEABLE_LOADER_ID, <<2, 0, 0>>) )
 @@ ( Key(EmptyLoaderOwned) :> Account(BPF_UPGRADEABLE_LOADER_ID, << >>) )
 @@ ( Key(ShortDataProgram) :> Account(BPF_UPGRADEABLE_LOADER_ID,
                                ProgramAccountData(<<2, 0, 0, 0>>, ShortDataKey)) )
 @@ ( Key(HeaderTextProgram) :> Account(BPF_UPGRADEABLE_LOADER_ID,
                                ProgramAccountData(<<2, 0, 0, 0>>, HeaderTextDataKey)) )
 @@ ( ProgramDataKey       :> Account(BPF_UPGRADEABLE_LOADER_ID,
                                ProgramDataHeader \o StandardImage) )
 @@ ( PlainDataKey         :> Account(BPF_UPGRADEABLE_LOADER_ID,
                                ProgramDataHeader \o PlainImage) )
 @@ ( ShortDataKey         :> Account(BPF_UPGRADEABLE_LOADER_ID, <<3, 0, 0>>) )
 @@ ( HeaderTextDataKey    :> Account(BPF_UPGRADEABLE_LOADER_ID, HeaderInHeaderData) )

\* the identity strings a caller passes; the last four are not public keys
ProgramIds ==
    { TokenProgram, DirectDelimited, DirectHeuristic, DirectPlain, DirectEmpty,
      DirectTagged,
      Upgradeable, UpgradeablePlain, DanglingProgram, WideTagProgram,
      ShortProgram, TagOnlyProgram, EmptyLoaderOwned, ShortDataProgram,
      HeaderTextProgram, ProgramDataId, UnknownProgram,
      "", "abc", "0OIl", "TokenkegQfeZyiNwAJbNbGKPFXCWuBvf9Ss623VQ5DA1" }

\* what connection.getAccountInfo(publicKey) resolves to: the account, or null
getAccountInfo(publicKey) ==
    IF publicKey \in DOMAIN chain THEN chain[publicKey] ELSE NullAccount

---------------------------------------------------------------------------
(* getSecurityTxtInfo, security.ts:25-72, cut at its two awaits.  A step   *)
(* of the function ends by throwing, by awaiting the program-data account  *)
(* or by returning the mapping.                                             *)

Throw(message)  == [kind |-> "throw",  message |-> message, address |-> << >>,
                    programData |-> << >>, info |-> EmptyInfo]
Await(address)  == [kind |-> "await",  message |-> "",      address |-> address,
                    programData |-> << >>, info |-> EmptyInfo]
\* security.ts:68, the search of the bytes held by the local programData
Return(programData) ==
    [kind |-> "return", message |-> "", address |-> << >>,
     programData |-> <<programData>>,
     info |-> findAndParseSecurityTxt(programData)]

\* A faulty variant of AfterProgramAccount that takes every account for a
\* program-data account and strips 8 bytes from the data of a direct one.
DirectDataStripped(programAccount) ==
    IF ~programAccount.present THEN Throw("Program account not found")
    ELSE IF programAccount.owner = BPF_UPGRADEABLE_LOADER_ID
    THEN IF Len(programAccount.data) >= 1 /\ programAccount.data[1] = 2
         THEN Await(PublicKeyOfBytes(BufferSlice(programAccount.data, 4, 36))[1])
         ELSE Throw("Not a valid upgradeable program account")
    ELSE Return(BufferSlice(programAccount.data, 8, Len(programAccount.data)))

\* security.ts:30-68, run when the first getAccountInfo has resolved
AfterProgramAccount(programAccount) ==
    IF ~programAccount.present THEN Throw("Program account not found")
    ELSE IF programAccount.owner = BPF_UPGRADEABLE_LOADER_ID
    THEN LET accountType == BufferSlice(programAccount.data, 0, 4)
         IN  IF Len(accountType) >= 1 /\ accountType[1] = 2
             THEN LET programDataAddress ==
                          PublicKeyOfBytes(BufferSlice(programAccount.data, 4, 36))
                  IN  IF programDataAddress = << >>
                      THEN Throw("Invalid public key input")
                      ELSE Await(programDataAddress[1])
             ELSE Throw("Not a valid upgradeable program account")
    ELSE Return(programAccount.data)

\* A faulty variant of AfterProgramDataAccount that does not test the
\* program-data account for null and searches an absent account as an
\* empty image.
AbsentAsEmptyImage(programDataAccount) ==
    Return(BufferSlice(programDataAccount.data, 8, Len(programDataAccount.data)))

\* A faulty variant of AfterProgramDataAccount that searches the
\* program-data account from its first byte, header included.
HeaderSearched(programDataAccount) ==
    IF ~programDataAccount.present THEN Throw("Program data account not found")
    ELSE Return(programDataAccount.data)

\* security.ts:52-68, run when the second getAccountInfo has resolved
AfterProgramDataAccount(programDataAccount) ==
    IF ~programDataAccount.present THEN Throw("Program data account not found")
    ELSE LET programData == BufferSlice(programDataAccount.data, 8,
                                        Len(programDataAccount.data))
         IN  Return(programData)

\* what a rejected getAccountInfo throws: the request did not reach the node
TransportError == "failed to get info about account"

---------------------------------------------------------------------------
(* The GET_SECURITY_TXT handler, getSecurityTxt.ts:47-74                    *)

NoResult == [status |-> "", info |-> << >>, message |-> ""]

\* A faulty variant of HandlerReturn without the test for an empty mapping.
HandlerReturnWithoutWarning(securityInfo) ==
    [status |-> "success", info |-> <<securityInfo>>,
     message |-> "Successfully retrieved security.txt information"]

\* A faulty variant of HandlerReturn that keeps a buffer between calls: a
\* call that ends while the result of another call has not been taken yet
\* finds the buffer consumed.
HandlerReturnShared(securityInfo) ==
    IF \/ Cardinality(ObjectKeys(securityInfo)) = 0
       \/ \E d \in DOMAIN calls : calls[d].pc = "returned"
    THEN [status |-> "warning", info |-> << >>,
          message |-> "No security.txt information found for this program"]
    ELSE [status |-> "success", info |-> <<securityInfo>>,
          message |-> "Successfully retrieved security.txt information"]

\* getSecurityTxt.ts:54-67; info is <<mapping>>, or << >> for null
HandlerReturn(securityInfo) ==
    IF Cardinality(ObjectKeys(securityInfo)) = 0
    THEN [status |-> "warning", info |-> << >>,
          message |-> "No security.txt information found for this program"]
    ELSE [status |-> "success", info |-> <<securityInfo>>,
          message |-> "Successfully retrieved security.txt information"]

\* getSecurityTxt.ts:68-73
HandlerCatch(message) ==
    [status |-> "error", info |-> << >>,
     message |-> "Failed to get security.txt info: " \o message]

CallIds == {1, 2}

\* A call of the handler: where it stands, its input, the addresses it has
\* asked the connection for, and its locals (<<value>> once assigned)
IdleCall ==
    [pc |-> "idle", programId |-> "", fetches |-> << >>,
     programAccount |-> << >>, programDataAccount |-> << >>,
     programData |-> << >>, securityInfo |-> << >>, result |-> NoResult]

\* the handler is called: getSecurityTxt.ts:48-52 and security.ts:26-28, up
\* to the first await
Invoke(c, programId) ==
    /\ calls[c].pc = "idle"
    /\ \E programPubkey \in { PublicKeyOfString(programId) } :
           IF programPubkey = << >>
           THEN calls' = [calls EXCEPT ![c] =
                    [IdleCall EXCEPT !.pc = "returned", !.programId = programId,
                                     !.result = HandlerCatch(PublicKeyError(programId))]]
           ELSE calls' = [calls EXCEPT ![c] =
                    [IdleCall EXCEPT !.pc = "programAccount", !.programId = programId,
                                     !.fetches = <<programPubkey[1]>>]]
    /\ UNCHANGED <<chain, image, found, status, scanned, block, extracted, history, parsed, fee, startup>>

\* the end of a step of getSecurityTxtInfo, in the handler
Continue(call, step) ==
    IF step.kind = "throw"
    THEN [call EXCEPT !.pc = "returned", !.result = HandlerCatch(step.message)]
    ELSE IF step.kind = "await"
    THEN [call EXCEPT !.pc = "programDataAccount",
                      !.fetches = Append(@, step.address)]
    ELSE [call EXCEPT !.pc = "returned", !.programData = step.programData,
                      !.securityInfo = <<step.info>>,
                      !.result = HandlerReturn(step.info)]

\* the first getAccountInfo settles
ProgramAccountSettles(c, resolved) ==
    /\ calls[c].pc = "programAccount"
    /\ calls' = [calls EXCEPT ![c] =
          IF resolved
          THEN Only({ Only({ Continue([calls[c] EXCEPT
                                          !.programAccount = <<programAccount>>], step) :
                                step \in { AfterProgramAccount(programAccount) } }) :
                         programAccount \in { getAccountInfo(calls[c].fetches[1]) } })
          ELSE Continue(calls[c], Throw(TransportError))]
    /\ UNCHANGED <<chain, image, found, status, scanned, block, extracted, history, parsed, fee, startup>>

\* A faulty variant of ProgramDataAccountSettles that keeps the address of
\* the program-data account in a variable all calls share: the fetch is
\* for the address the call that last waits for a program-data account
\* has read.
SharedAddressSettles(c, resolved) ==
    /\ calls[c].pc = "programDataAccount"
    /\ calls' = [calls EXCEPT ![c] =
          IF resolved
          THEN LET last == Max({ d \in CallIds : calls[d].pc = "programDataAccount" })
                   programDataAccount == getAccountInfo(calls[last].fetches[2])
               IN  Continue([calls[c] EXCEPT
                                !.programDataAccount = <<programDataAccount>>],
                            AfterProgramDataAccount(programDataAccount))
          ELSE Continue(calls[c], Throw(TransportError))]
    /\ UNCHANGED <<chain, image, found, status, scanned, block, extracted, history, parsed, fee, startup>>

\* the second getAccountInfo settles
ProgramDataAccountSettles(c, resolved) ==
    /\ calls[c].pc = "programDataAccount"
    /\ calls' = [calls EXCEPT ![c] =
          IF resolved
          THEN Only({ Only({ Continue([calls[c] EXCEPT
                                          !.programDataAccount = <<programDataAccount>>], step) :
                                step \in { AfterProgramDataAccount(programDataAccount) } }) :
                         programDataAccount \in { getAccountInfo(calls[c].fetches[2]) } })
          ELSE Continue(calls[c], Throw(TransportError))]
    /\ UNCHANGED <<chain, image, found, status, scanned, block, extracted, history, parsed, fee, startup>>

\* the caller has taken the result; the next call starts from nothing
Forget(c) ==
    /\ calls[c].pc = "returned"
    /\ calls' = [calls EXCEPT ![c] = IdleCall]
    /\ UNCHANGED <<chain, image, found, status, scanned, block, extracted, history, parsed, fee, startup>>

\* no call of the GET_TRANSACTION_HISTORY handler yet
IdleHistory == [pc |-> "idle", params |-> << >>, result |-> << >>]

\* main() has not run; the environment is of no concern to the handlers
NotStarted ==
    [pc |-> "main", env |-> << >>, validated |-> FALSE, agent |-> << >>,
     started |-> FALSE, error |-> "", exitCode |-> << >>]

\* no call of the GET_PRIORITY_FEE_ESTIMATE handler yet
IdleFee == [pc |-> "idle", params |-> << >>, via |-> "", result |-> << >>]

\* parseSecurityTxt has been given nothing
NotParsed == [lines |-> << >>, result |-> << >>]

NoBlock == [prefix |-> << >>, lines |-> << >>, tail |-> << >>]
Forms == {"standard", "delimited"}
NotExtracted == [f \in Forms |-> << >>]

Init ==
    /\ chain = Chain
    /\ calls = [c \in CallIds |-> IdleCall]
    /\ image = << >>
    /\ found = EmptyInfo
    /\ status = ""
    /\ scanned = << >>
    /\ block = NoBlock
    /\ extracted = NotExtracted
    /\ history = IdleHistory
    /\ parsed = NotParsed
    /\ fee = IdleFee
    /\ startup = NotStarted

Next ==
    \E c \in CallIds :
        \/ \E programId \in ProgramIds : Invoke(c, programId)
        \/ \E resolved \in BOOLEAN : ProgramAccountSettles(c, resolved)
        \/ \E resolved \in BOOLEAN : ProgramDataAccountSettles(c, resolved)
        \/ Forget(c)

Spec == Init /\ [][Next]_vars

---------------------------------------------------------------------------
(* The search of one program image: findAndParseSecurityTxt applied to the *)
(* data of a program that is not upgradeable, security.ts:64-68.  The      *)
(* image is an input: a concatenation of pieces of text and of bytes that  *)
(* are not text.                                                            *)

MaxPieces == 2

Pieces ==
    { TextEncode("# security.txt\nexpires: 2025-01-01\n"),
      TextEncode("preferred-languages: en\n"),
      TextEncode("\nContact: bob@x.io\n"),
      TextEncode("-----BEGIN SECURITY.TXT-----\npolicy: https://x.io/p\n-----END SECURITY.TXT-----\n"),
      TextEncode("security@example.org "),
      TextEncode("https://x.io/security "),
      TextEncode("https://y.org/vulnerability "),
      TextEncode("-----BEGIN PGP PUBLIC KEY BLOCK-----\nmQENBF\n-----END PGP PUBLIC KEY BLOCK-----\n"),
      TextEncode("mailto:ops@x.io "),
      TextEncode("Security-Contact: eve@y.org\n"),
      TextEncode("\n# security.txt\nno field here\n\n"),
      TextEncode("Contact us at ops@x.io or https://x.io/sec\n"),
      TextEncode("Contact:  carol@z.io \n"),
      TextEncode("-----END PGP PUBLIC KEY BLOCK-----\n-----BEGIN PGP PUBLIC KEY BLOCK-----\n"),
      <<127, 69, 76, 70, 0, 255>> }

\* the concatenations of at most n pieces
RECURSIVE Images(_)
Images(n) ==
    IF n = 0 THEN { << >> }
    ELSE Images(n - 1) \cup { i \o p : i \in Images(n - 1), p \in Pieces }

InitText ==
    /\ chain = Chain
    /\ calls = [c \in CallIds |-> IdleCall]
    /\ image \in Images(MaxPieces)
    /\ found = EmptyInfo
    /\ status = ""
    /\ scanned = << >>
    /\ block = NoBlock
    /\ extracted = NotExtracted
    /\ history = IdleHistory
    /\ parsed = NotParsed
    /\ fee = IdleFee
    /\ startup = NotStarted

\* the handler on a program whose account holds `image` and is not owned by
\* the upgradeable loader: security.ts:64-68, getSecurityTxt.ts:52-67
Search ==
    /\ status = ""
    /\ found' = findAndParseSecurityTxt(image)
    /\ status' = HandlerReturn(found').status
    /\ UNCHANGED <<chain, calls, image, scanned, block, extracted, history, parsed, fee, startup>>

\* the heuristic scanner alone on the decoded image, security.ts:161-186
Scan ==
    /\ scanned = << >>
    /\ scanned' = <<extractSecurityInfoFromText(TextDecode(image))>>
    /\ UNCHANGED <<chain, calls, image, found, status, block, extracted, history, parsed, fee, startup>>

NextText == Search \/ Scan

SpecText == InitText /\ [][NextText]_vars

---------------------------------------------------------------------------
(* One list of 'key: value' lines embedded in a program image in the two   *)
(* block forms of security.ts:88 and security.ts:95, and extracted from    *)
(* each.                                                                    *)

MaxLines == 2

FieldLines ==
    { "contact: mailto:sec@example.com",
      "expires: 2025-01-01",
      "preferred-languages: en",
      "Preferred-Languages:  fr ",
      "a-b-c:1",
      "contact: bob@x.io",
      "policy: https://x.io/p\r" }

RECURSIVE LineLists(_)
LineLists(n) ==
    IF n = 0 THEN { << >> }
    ELSE LineLists(n - 1) \cup { Append(l, x) : l \in LineLists(n - 1), x \in FieldLines }

\* what precedes the block: nothing, or machine code and a line break
Prefixes == { << >>, ElfHeader \o TextEncode("\n") }

\* what follows the last line: the end of the image, a line break, a blank
\* line and machine code, or a comment line
Tails ==
    { << >>, TextEncode("\n"), TextEncode("\n\n") \o Padding,
      TextEncode("\n# end of security.txt\n") \o Padding }

\* lines.join('\n')
JoinLine(lines, i) == IF i = 1 THEN lines[i] ELSE "\n" \o lines[i]
JoinLines(lines) == Join(JoinLine, lines, 1, Len(lines))

Embed(b, form) ==
    IF form = "standard"
    THEN b.prefix \o TextEncode("# security.txt\n" \o JoinLines(b.lines)) \o b.tail
    ELSE b.prefix
            \o TextEncode("-----BEGIN SECURITY.TXT-----\n" \o JoinLines(b.lines)
                             \o "\n-----END SECURITY.TXT-----")
            \o b.tail

InitForms ==
    /\ chain = Chain
    /\ calls = [c \in CallIds |-> IdleCall]
    /\ image = << >>
    /\ found = EmptyInfo
    /\ status = ""
    /\ scanned = << >>
    /\ block \in [prefix : Prefixes, lines : LineLists(MaxLines), tail : Tails]
    /\ extracted = NotExtracted
    /\ history = IdleHistory
    /\ parsed = NotParsed
    /\ fee = IdleFee
    /\ startup = NotStarted

Extract(form) ==
    /\ extracted[form] = << >>
    /\ extracted' = [extracted EXCEPT
                        ![form] = <<findAndParseSecurityTxt(Embed(block, form))>>]
    /\ UNCHANGED <<chain, calls, image, found, status, scanned, block, history, parsed, fee, startup>>

ExtractStandard  == Extract("standard")
ExtractDelimited == Extract("delimited")

NextForms == ExtractStandard \/ ExtractDelimited

SpecForms == InitForms /\ [][NextForms]_vars

---------------------------------------------------------------------------
(* parseSecurityTxt alone, security.ts:127-153, on the content made of up  *)
(* to MaxRawLines lines joined by line breaks                               *)

MaxRawLines == 2

\* blank lines, comments, a line without a colon, values with colons,
\* blanks around the field and the value, one field in its kebab-case and
\* in its camelCase spelling, a line that ends in a carriage return
RawLines ==
    { "", "   ", "# contact: nobody", "   # indented: comment",
      "no colon here", "contact: mailto:a@b.c", "  Policy  :   https://x.io/p  ",
      "preferred-languages:en", "preferredLanguages: fr",
      "expires: 2025-01-01\r" }

RECURSIVE RawLineLists(_)
RawLineLists(n) ==
    IF n = 0 THEN { << >> }
    ELSE RawLineLists(n - 1)
            \cup { Append(l, x) : l \in RawLineLists(n - 1), x \in RawLines }

InitParse ==
    /\ chain = Chain
    /\ calls = [c \in CallIds |-> IdleCall]
    /\ image = << >>
    /\ found = EmptyInfo
    /\ status = ""
    /\ scanned = << >>
    /\ block = NoBlock
    /\ extracted = NotExtracted
    /\ history = IdleHistory
    /\ parsed \in [lines : RawLineLists(MaxRawLines), result : { << >> }]
    /\ fee = IdleFee
    /\ startup = NotStarted

\* parseSecurityTxt(content) returns
Parse ==
    /\ parsed.result = << >>
    /\ parsed' = [parsed EXCEPT !.result = <<parseSecurityTxt(JoinLines(parsed.lines))>>]
    /\ UNCHANGED <<chain, calls, image, found, status, scanned, block, extracted, history, fee, startup>>

SpecParse == InitParse /\ [][Parse]_vars

---------------------------------------------------------------------------
(* The GET_TRANSACTION_HISTORY handler, getSecurityTxt.ts:214-294.  An     *)
(* optional parameter is << >> when it is absent and <<value>> when given. *)
(* getTransactionHistory (index.ts:132-224) asks the Helius API: it        *)
(* resolves to the list of transactions of the response or rejects.        *)

\* String(n) for a natural number n
RECURSIVE DecimalString(_)
DecimalString(n) ==
    IF n < 10 THEN SubSeq(Digits, n + 1, n + 1)
    ELSE DecimalString(n \div 10) \o SubSeq(Digits, (n % 10) + 1, (n % 10) + 1)

\* types.join(', ')
JoinType(types, i) == IF i = 1 THEN types[i] ELSE ", " \o types[i]
JoinTypes(types) == Join(JoinType, types, 1, Len(types))

\* JavaScript's truthiness of an optional string parameter
TruthyString(p) == p # << >> /\ p[1] # ""

\* the params the handler is called with
HistoryParams ==
    [address : { << >>, <<"">>, <<"abc">>,
                 <<"TokenkegQfeZyiNwAJbNbGKPFXCWuBvf9Ss623VQ5DA">>,
                 <<"8zFZHuSRuDpuAR7J6FzwyF3vKNx4CVW3DFHJerQhc7Zd">> },
     limit   : { << >>, <<1>>, <<5>>, <<100>> },
     before  : { << >>, <<"">>, <<"5UJpjrKQ8641">> },
     until   : { << >>, <<"">>, <<"5UJpjrKQ8641">> },
     types   : { << >>, << << >> >>, << <<"NFT_SALE">> >>,
                 << <<"NFT_SALE", "NFT_LISTING">> >> }]

\* what getTransactionHistory resolves to
TransactionLists ==
    LET transaction ==
            [signature |-> "5UJpjrKQ8641", slot |-> 172492080,
             timestamp |-> 1678901234, err |-> << >>, memo |-> << >>,
             blockTime |-> 1678901234, type |-> "System Transfer",
             fee |-> 5000, status |-> "Success"]
    IN  { << >>, <<transaction>>, <<transaction, transaction>> }

\* getSecurityTxt.ts:229 and 250-262
limitOf(params) ==
    IF params.limit # << >> /\ params.limit[1] # 0 THEN params.limit[1] ELSE 10

SuccessMessage(params) ==
    IF params.types # << >> /\ Len(params.types[1]) > 0
    THEN "Successfully retrieved " \o JoinTypes(params.types[1]) \o " transactions"
    ELSE IF TruthyString(params.until)
    THEN "Successfully retrieved transaction history until specified signature"
    ELSE IF TruthyString(params.before)
    THEN "Successfully retrieved transaction history before specified signature"
    ELSE IF limitOf(params) # 0
    THEN "Successfully retrieved " \o DecimalString(limitOf(params))
             \o " most recent transactions"
    ELSE "Successfully retrieved transaction history"

\* the handler is called: getSecurityTxt.ts:215-247, up to the await
HistoryInvoke(params) ==
    /\ history.pc = "idle"
    /\ history' =
          IF ~TruthyString(params.address)
          THEN [pc |-> "returned", params |-> <<params>>,
                result |-> <<[status |-> "input_needed",
                              message |-> "Please provide a Solana wallet address to view transaction history.",
                              transactions |-> << >>]>>]
          ELSE IF PublicKeyOfString(params.address[1]) = << >>
          THEN [pc |-> "returned", params |-> <<params>>,
                result |-> <<[status |-> "error",
                              message |-> "Invalid Solana address provided",
                              transactions |-> << >>]>>]
          ELSE [pc |-> "getTransactionHistory", params |-> <<params>>,
                result |-> << >>]
    /\ UNCHANGED <<chain, calls, image, found, status, scanned, block, extracted, parsed, fee, startup>>

\* getTransactionHistory resolves: getSecurityTxt.ts:249-279
HistoryResolves(transactions) ==
    /\ history.pc = "getTransactionHistory"
    /\ history' = [history EXCEPT
          !.pc = "returned",
          !.result = <<[status |-> "success",
                        message |-> SuccessMessage(history.params[1]),
                        transactions |-> <<transactions>>]>>]
    /\ UNCHANGED <<chain, calls, image, found, status, scanned, block, extracted, parsed, fee, startup>>

\* getTransactionHistory rejects: getSecurityTxt.ts:280-287
HistoryRejects ==
    /\ history.pc = "getTransactionHistory"
    /\ history' = [history EXCEPT
          !.pc = "returned",
          !.result = <<[status |-> "error",
                        message |-> "Failed to retrieve transaction history: "
                                       \o TransportError,
                        transactions |-> << >>]>>]
    /\ UNCHANGED <<chain, calls, image, found, status, scanned, block, extracted, parsed, fee, startup>>

NextHistory ==
    \/ \E params \in HistoryParams : HistoryInvoke(params)
    \/ \E transactions \in TransactionLists : HistoryResolves(transactions)
    \/ HistoryRejects

SpecHistory == Init /\ [][NextHistory]_vars

---------------------------------------------------------------------------
(* The GET_PRIORITY_FEE_ESTIMATE handler, getPriorityFeeEstimate.ts:89-129, *)
(* and estimatePriorityFee, validator.ts:82-357.  An optional value is     *)
(* << >> when it is absent and <<value>> when given.  The response of the  *)
(* fee-estimation request is what fetch and response.json() settle to.     *)

\* validator.ts:328-357
getDefaultPriorityFees ==
    [low |-> 1000, medium |-> 10000, high |-> 100000, veryHigh |-> <<150000>>,
     min |-> <<0>>, unsafeMax |-> <<200000>>, suggested |-> 10000,
     timeEstimates |-> [low |-> "1-2 blocks (~0.8s)", medium |-> "1 block (~0.4s)",
                        high |-> "Usually immediate"],
     priorityFeeEstimate |-> <<10000>>,
     priorityFeeLevels |-> <<[min |-> <<0>>, low |-> <<1000>>, medium |-> <<10000>>,
                              high |-> <<100000>>, veryHigh |-> <<150000>>,
                              unsafeMax |-> <<200000>>]>>]

\* a || b on optional numbers: a when it is given and not 0, b otherwise
OrElse(a, b) == IF a # << >> /\ a[1] # 0 THEN a ELSE b

\* the try block of validator.ts:91-161 and of 185-274 once the request has
\* settled: the estimate returned, or the error thrown
EstimateFromResponse(response, timeEstimates) ==
    IF response.kind = "rejected"
    THEN [kind |-> "throw", message |-> "fetch failed", estimate |-> << >>]
    ELSE IF response.kind = "notJson"
    THEN [kind |-> "throw", message |-> "Unexpected token < in JSON at position 0",
          estimate |-> << >>]
    ELSE IF response.kind = "null"
    THEN [kind |-> "throw",
          message |-> "Cannot read properties of null (reading 'error')",
          estimate |-> << >>]
    ELSE IF response.error # << >>
    THEN [kind |-> "throw", message |-> "Helius API error: " \o response.error[1],
          estimate |-> << >>]
    ELSE IF response.result = << >> \/ response.result[1].priorityFeeLevels = << >>
    THEN [kind |-> "return", message |-> "", estimate |-> <<getDefaultPriorityFees>>]
    ELSE LET result == response.result[1]
             priorityFeeEstimate == OrElse(result.priorityFeeEstimate, result.priorityFee)
             levels == result.priorityFeeLevels[1]
             \* Math.ceil(medium * 1.2); NaN when medium is undefined
             raised == IF levels.medium = << >> THEN "NaN"
                       ELSE (6 * levels.medium[1] + 4) \div 5
         IN  [kind |-> "return", message |-> "", estimate |->
               <<[low |-> OrElse(levels.low, <<0>>)[1],
                  medium |-> OrElse(levels.medium, <<0>>)[1],
                  high |-> OrElse(levels.high, <<0>>)[1],
                  veryHigh |-> levels.veryHigh, min |-> levels.min,
                  unsafeMax |-> levels.unsafeMax,
                  suggested |-> OrElse(priorityFeeEstimate, <<raised>>)[1],
                  timeEstimates |-> timeEstimates,
                  priorityFeeEstimate |-> priorityFeeEstimate,
                  priorityFeeLevels |-> <<levels>>]>>]

\* validator.ts:162-165 and 275-278: the catch of the two estimators
OrDefaults(step) ==
    IF step.kind = "throw"
    THEN [kind |-> "return", message |-> "", estimate |-> <<getDefaultPriorityFees>>]
    ELSE step

estimatePriorityFeeByAccountKeys(response) ==
    OrDefaults(EstimateFromResponse(response, getDefaultPriorityFees.timeEstimates))

estimatePriorityFeeByTransaction(response) ==
    OrDefaults(EstimateFromResponse(response,
        [low |-> "3-5 seconds", medium |-> "2-3 seconds", high |-> "1-2 seconds"]))

\* validator.ts:296-298: the estimator that issues the request
ViaOf(options) ==
    IF options.method = <<"transaction">> /\ options.serializedTransaction # << >>
           /\ options.serializedTransaction[1] # ""
    THEN "transaction" ELSE "accountKeys"

\* A faulty variant of estimatePriorityFee whose estimators have no catch.
EstimateWithoutFallback(via, response) ==
    EstimateFromResponse(response, getDefaultPriorityFees.timeEstimates)

\* validator.ts:285-323, once the request has settled
estimatePriorityFee(via, response) ==
    OrDefaults(IF via = "transaction"
               THEN estimatePriorityFeeByTransaction(response)
               ELSE estimatePriorityFeeByAccountKeys(response))

\* the params the handler is called with
FeeParams ==
    [method                : { << >>, <<"accountKeys">>, <<"transaction">> },
     accountKeys           : { << >>, << <<"TokenkegQfeZyiNwAJbNbGKPFXCWuBvf9Ss623VQ5DA">> >> },
     serializedTransaction : { << >>, <<"">>, <<"4hXTCkRzt9WyecNzV1XPgCDf">> }]

\* what the request settles to: fetch rejects, the body is not JSON, the
\* body is null, or the body is an object with an error, a result, or none
FeeResponses ==
    LET Body(error, result) == [kind |-> "data", error |-> error, result |-> result]
        Result(estimate, priorityFee, levels) ==
            <<[priorityFeeEstimate |-> estimate, priorityFee |-> priorityFee,
               priorityFeeLevels |-> levels]>>
        Levels(low, medium) ==
            <<[min |-> <<0>>, low |-> low, medium |-> medium, high |-> <<90000>>,
               veryHigh |-> <<120000>>, unsafeMax |-> << >>]>>
    IN  { [kind |-> "rejected"], [kind |-> "notJson"], [kind |-> "null"],
          Body(<<"Method not found">>, << >>),
          Body(<<"rate limited">>, Result(<<12000>>, << >>, Levels(<<900>>, <<9001>>))),
          Body(<< >>, << >>),
          Body(<< >>, Result(<<5000>>, << >>, << >>)),
          Body(<< >>, Result(<<12000>>, << >>, Levels(<<900>>, <<9001>>))),
          Body(<< >>, Result(<< >>, << >>, Levels(<<900>>, <<9001>>))),
          Body(<< >>, Result(<<0>>, <<7000>>, Levels(<<0>>, <<9001>>))),
          Body(<< >>, Result(<< >>, << >>, Levels(<<900>>, << >>))) }

\* getPriorityFeeEstimate.ts:106-112
FeeMessage(params) ==
    IF params.method = <<"transaction">>
    THEN "Successfully estimated priority fees using transaction method"
    ELSE IF params.method = <<"accountKeys">> /\ params.accountKeys # << >>
    THEN "Successfully estimated priority fees for specific account keys"
    ELSE "Successfully estimated priority fees"

\* the handler is called: getPriorityFeeEstimate.ts:89-103 and
\* validator.ts:296-320, up to the fetch
FeeInvoke(params) ==
    /\ fee.pc = "idle"
    /\ fee' = [pc |-> "fetch", params |-> <<params>>, via |-> ViaOf(params),
               result |-> << >>]
    /\ UNCHANGED <<chain, calls, image, found, status, scanned, block, extracted,
                   history, parsed, startup>>

\* the request settles: validator.ts:118-165 and getPriorityFeeEstimate.ts:
\* 105-127
FeeSettles(response) ==
    /\ fee.pc = "fetch"
    /\ \E step \in { estimatePriorityFee(fee.via, response) } :
          fee' = [fee EXCEPT
             !.pc = "returned",
             !.result =
                 IF step.kind = "throw"
                 THEN <<[status |-> "error",
                         message |-> "Failed to estimate priority fees: " \o step.message,
                         estimate |-> << >>, response |-> response]>>
                 ELSE <<[status |-> "success", message |-> FeeMessage(fee.params[1]),
                         estimate |-> step.estimate, response |-> response]>>]
    /\ UNCHANGED <<chain, calls, image, found, status, scanned, block, extracted,
                   history, parsed, startup>>

NextFee ==
    \/ \E params \in FeeParams : FeeInvoke(params)
    \/ \E response \in FeeResponses : FeeSettles(response)

SpecFee == Init /\ [][NextFee]_vars

---------------------------------------------------------------------------
(* The start of the process, index.ts:10-99.  The environment gives each   *)
(* variable as << >> when it is not set and as <<value>> when it is.  The  *)
(* constructor of SolanaAgentKit and startMcpServer belong to the package  *)
(* solana-agent-kit: each returns or throws.                               *)

\* A faulty variant of missingVars that takes a variable set to the empty
\* string for a variable with a value.
missingVarsUnsetOnly(env) ==
    (IF env.SOLANA_PRIVATE_KEY = << >> THEN <<"SOLANA_PRIVATE_KEY">> ELSE << >>)
    \o (IF env.RPC_URL = << >> THEN <<"RPC_URL">> ELSE << >>)

\* index.ts:11-18: the names of the required variables that have no value
\* or the empty one, in the order of requiredEnvVars
missingVars(env) ==
    (IF env.SOLANA_PRIVATE_KEY = << >> \/ env.SOLANA_PRIVATE_KEY = <<"">>
     THEN <<"SOLANA_PRIVATE_KEY">> ELSE << >>)
    \o (IF env.RPC_URL = << >> \/ env.RPC_URL = <<"">> THEN <<"RPC_URL">> ELSE << >>)

\* index.ts:20-22: << >>, or <<the message of the error thrown>>
validateEnvironment(env) ==
    IF Len(missingVars(env)) > 0
    THEN <<"Missing required environment variables: " \o JoinTypes(missingVars(env))>>
    ELSE << >>

\* index.ts:31 and 40: RPC_URL.split('api-key=')[1] || ""
HeliusApiKey(url) ==
    LET seps == { p \in 1..Len(url) : LooksAt(url, p, "api-key=") }
    IN  IF seps = {} THEN ""
        ELSE LET from == Min(seps) + 8
                 next == { p \in seps : p >= from }
             IN  SubSeq(url, from, IF next = {} THEN Len(url) ELSE Min(next) - 1)

\* the environments the process is started in
Environments ==
    [SOLANA_PRIVATE_KEY : { << >>, <<"">>, <<"5MaiiCavjCmn9Hs1o3eznqDEhRwxo7pXiAYez7keQUviUkauRiTMD8DrESdrNjN8zd9mTmVhRvBJeg5vhyvgrAhG">>,
                            <<"not a key">> },
     RPC_URL            : { << >>, <<"">>, <<"https://api.mainnet-beta.solana.com">>,
                            <<"https://mainnet.helius-rpc.com/?api-key=abc123">>,
                            <<"https://mainnet.helius-rpc.com/?api-key=">> },
     OPENAI_API_KEY     : { << >>, <<"sk-1">> },
     PERPLEXITY_API_KEY : { << >>, <<"">> }]

InitStartup ==
    /\ chain = Chain
    /\ calls = [c \in CallIds |-> IdleCall]
    /\ image = << >>
    /\ found = EmptyInfo
    /\ status = ""
    /\ scanned = << >>
    /\ block = NoBlock
    /\ extracted = NotExtracted
    /\ history = IdleHistory
    /\ parsed = NotParsed
    /\ fee = IdleFee
    /\ startup \in { [NotStarted EXCEPT !.env = <<env>>] : env \in Environments }

\* index.ts:82-85: the catch of main
Exit(message) ==
    [startup EXCEPT !.pc = "exited", !.error = message, !.exitCode = <<1>>]

\* index.ts:26-28
Validate ==
    /\ startup.pc = "main"
    /\ startup' =
          IF validateEnvironment(startup.env[1]) # << >>
          THEN Exit(validateEnvironment(startup.env[1])[1])
          ELSE [startup EXCEPT !.pc = "validated", !.validated = TRUE]
    /\ UNCHANGED <<chain, calls, image, found, status, scanned, block, extracted,
                   history, parsed, fee>>

\* index.ts:30-42: new SolanaAgentKit(...) returns or throws
ConstructAgent(thrown) ==
    /\ startup.pc = "validated"
    /\ startup' =
          IF thrown THEN Exit("Non-base58 character")
          ELSE LET env == startup.env[1]
                   OrEmpty(v) == IF v = << >> THEN "" ELSE v[1]
               IN  [startup EXCEPT
                      !.pc = "agent",
                      !.agent = <<[privateKey |-> env.SOLANA_PRIVATE_KEY[1],
                                   rpcUrl |-> env.RPC_URL[1],
                                   OPENAI_API_KEY |-> OrEmpty(env.OPENAI_API_KEY),
                                   PERPLEXITY_API_KEY |-> OrEmpty(env.PERPLEXITY_API_KEY),
                                   HELIUS_API_KEY |-> HeliusApiKey(env.RPC_URL[1])]>>]
    /\ UNCHANGED <<chain, calls, image, found, status, scanned, block, extracted,
                   history, parsed, fee>>

\* index.ts:44-78: the actions are gathered and startMcpServer is called
StartMcpServer ==
    /\ startup.pc = "agent"
    /\ startup' = [startup EXCEPT !.pc = "startMcpServer", !.started = TRUE]
    /\ UNCHANGED <<chain, calls, image, found, status, scanned, block, extracted,
                   history, parsed, fee>>

\* index.ts:75-85: startMcpServer resolves or rejects
McpServerSettles(resolved) ==
    /\ startup.pc = "startMcpServer"
    /\ startup' = IF resolved THEN [startup EXCEPT !.pc = "serving"]
                  ELSE Exit("listen EADDRINUSE")
    /\ UNCHANGED <<chain, calls, image, found, status, scanned, block, extracted,
                   history, parsed, fee>>

NextStartup ==
    \/ Validate
    \/ \E thrown \in BOOLEAN : ConstructAgent(thrown)
    \/ StartMcpServer
    \/ \E resolved \in BOOLEAN : McpServerSettles(resolved)

SpecStartup == InitStartup /\ [][NextStartup]_vars

---------------------------------------------------------------------------
(* Properties of the handler, checked under Spec                           *)

Returned(c) == calls[c].pc = "returned"

\* the message of the error result for an error thrown with message m
Failed(m) == "Failed to get security.txt info: " \o m

\* A Program account of the upgradeable loader: the 32-bit little-endian
\* tag 2, then the 32 bytes of the address of its program-data account.
ProgramTag == <<2, 0, 0, 0>>

IsProgramAccount(a) ==
    /\ a.present
    /\ a.owner = BPF_UPGRADEABLE_LOADER_ID
    /\ Len(a.data) >= 36
    /\ SubSeq(a.data, 1, 4) = ProgramTag

PointsToAbsent(a) == ~getAccountInfo(SubSeq(a.data, 5, 36)).present

DanglingCall(c) ==
    /\ calls[c].programAccount # << >>
    /\ IsProgramAccount(calls[c].programAccount[1])
    /\ PointsToAbsent(calls[c].programAccount[1])

\* C5: a call on a Program account of the upgradeable loader whose
\* program-data account is absent never gets a mapping and never ends in
\* 'success' or 'warning'; once the fetch of the program-data account has
\* resolved, the call has ended in 'error' with the account-not-found error.
C5_DanglingProgramFails ==
    \A c \in CallIds :
        DanglingCall(c) =>
            /\ calls[c].securityInfo = << >>
            /\ calls[c].result.status \in {"", "error"}
            /\ calls[c].result.info = << >>
            /\ calls[c].programDataAccount # << >> =>
                  /\ Returned(c)
                  /\ calls[c].result.status = "error"
                  /\ calls[c].result.message = Failed("Program data account not found")

C5_Witness ==
    \E c \in CallIds :
        /\ DanglingCall(c)
        /\ calls[c].programDataAccount = <<NullAccount>>
        /\ Returned(c)
        /\ calls[c].result.status = "error"

C7_StatusFollowsOutcome ==
    \A c \in CallIds :
        LET r        == calls[c].result
            resolved == calls[c].securityInfo # << >>
            keys     == IF resolved THEN DOMAIN calls[c].securityInfo[1] ELSE {}
        IN  /\ calls[c].pc \in {"idle", "programAccount", "programDataAccount", "returned"}
            /\ Returned(c) =>
                  /\ r.status \in {"success", "warning", "error"}
                  /\ r.status = "success" <=> (resolved /\ keys # {})
                  /\ r.status = "warning" <=> (resolved /\ keys = {})
                  /\ r.status = "error"   <=> ~resolved
                  /\ r.status = "success" => r.info = calls[c].securityInfo
                  /\ r.status # "success" => r.info = << >>
            /\ ~Returned(c) => calls[c].result = NoResult /\ ~resolved

C7_Witness ==
    \E c, d \in CallIds :
        /\ Returned(c) /\ calls[c].result.status = "warning"
        /\ calls[c].securityInfo = <<EmptyInfo>>
        /\ Returned(d) /\ calls[d].result.status = "error"
        /\ calls[d].fetches # << >>

\* An account of the upgradeable loader is truncated when it is too short
\* for the tag and the address of a Program account; a program-data account
\* is truncated when it is shorter than its 8-byte header.
TruncatedCall(c) ==
    /\ calls[c].programAccount # << >>
    /\ calls[c].programAccount[1].present
    /\ calls[c].programAccount[1].owner = BPF_UPGRADEABLE_LOADER_ID
    /\ \/ Len(calls[c].programAccount[1].data) < 36
       \/ /\ calls[c].programDataAccount # << >>
          /\ calls[c].programDataAccount[1].present
          /\ Len(calls[c].programDataAccount[1].data) < 8

\* C9: a call on an account of the upgradeable loader whose structure is
\* truncated ends in 'error', never in 'success' or 'warning'.
C9_TruncatedIsAnError ==
    \A c \in CallIds :
        (Returned(c) /\ TruncatedCall(c)) => calls[c].result.status = "error"

\* the call on the Program account whose program-data account holds three
\* bytes has searched the empty image and ended in 'warning'
C9_Witness ==
    \E c \in CallIds :
        /\ Returned(c) /\ TruncatedCall(c)
        /\ calls[c].programId = ShortDataProgram
        /\ Len(calls[c].programDataAccount[1].data) = 3
        /\ calls[c].securityInfo = <<EmptyInfo>>
        /\ calls[c].result.status = "warning"

\* the identities offered to the handler that are not the base58 form of 32
\* bytes: no character, too few, characters outside the alphabet, too many
MalformedIds == { "", "abc", "0OIl", TokenProgram \o "1" }

\* C10: a call with a program identity that is not a valid public key has
\* returned 'error' as soon as it has started, and has issued no fetch.
C10_MalformedIdentityRejected ==
    \A c \in CallIds :
        (calls[c].pc # "idle" /\ calls[c].programId \in MalformedIds) =>
            /\ Returned(c)
            /\ calls[c].result.status = "error"
            /\ calls[c].result.info = << >>
            /\ calls[c].fetches = << >>
            /\ calls[c].programAccount = << >>
            /\ calls[c].securityInfo = << >>

C10_Witness ==
    \E c, d \in CallIds :
        /\ Returned(c) /\ calls[c].programId = "abc"
        /\ calls[c].result.message = Failed("Invalid public key input")
        /\ Returned(d) /\ calls[d].programId = "0OIl"
        /\ calls[d].result.message = Failed("Non-base58 character")

\* the first account of call c has been fetched and the upgradeable loader
\* owns it
LoaderOwned(c) ==
    /\ calls[c].programAccount # << >>
    /\ calls[c].programAccount[1].present
    /\ calls[c].programAccount[1].owner = BPF_UPGRADEABLE_LOADER_ID

\* the first four bytes of data read as one little-endian number
LittleEndian32(data) ==
    data[1] + 256 * data[2] + 65536 * data[3] + 16777216 * data[4]

InvalidLayout == Failed("Not a valid upgradeable program account")

\* C12: a call on an account of the upgradeable loader whose first four
\* bytes, read as one little-endian number, are not 2 ends with the
\* invalid-layout error and has fetched no second account.
C12_TagIsFourBytes ==
    \A c \in CallIds :
        ( /\ LoaderOwned(c)
          /\ Len(calls[c].programAccount[1].data) >= 4
          /\ LittleEndian32(calls[c].programAccount[1].data) # 2 )
        => /\ Returned(c)
           /\ calls[c].result.message = InvalidLayout
           /\ Len(calls[c].fetches) = 1

\* the call on the account tagged 02 01 00 00 has read the address after
\* the tag, fetched the program-data account and ended in 'success'
C12_Witness ==
    \E c \in CallIds :
        /\ LoaderOwned(c)
        /\ calls[c].programId = WideTagProgram
        /\ LittleEndian32(calls[c].programAccount[1].data) = 258
        /\ calls[c].fetches[2] = ProgramDataKey
        /\ Returned(c)
        /\ calls[c].result.status = "success"

\* C13: a call on an account of the upgradeable loader whose data is
\* shorter than 36 bytes ends with the invalid-layout error and fetches no
\* second account.
C13_ShortProgramAccountFails ==
    \A c \in CallIds :
        (LoaderOwned(c) /\ Len(calls[c].programAccount[1].data) < 36)
        => /\ Returned(c)
           /\ calls[c].result.message = InvalidLayout
           /\ Len(calls[c].fetches) = 1

\* the call on the account of three bytes, 02 00 00, is waiting for the
\* account at the address of 32 zero bytes, built from no byte at all
C13_Witness ==
    \E c \in CallIds :
        /\ LoaderOwned(c)
        /\ calls[c].programId = TagOnlyProgram
        /\ Len(calls[c].programAccount[1].data) = 3
        /\ calls[c].pc = "programDataAccount"
        /\ calls[c].fetches[2] = Zeroes(PUBLIC_KEY_LENGTH)

\* the account carries the four bytes of the Program tag
ProgramTagged(a) == Len(a.data) >= 4 /\ SubSeq(a.data, 1, 4) = ProgramTag

\* what every call keeps whatever its accounts are: at most two fetches,
\* the first for the program, the second only once the first has returned
\* an account of the upgradeable loader, and none after an absent account
FetchOrder(c) ==
    /\ Len(calls[c].fetches) <= 2
    /\ calls[c].pc = "programAccount" =>
          Len(calls[c].fetches) = 1 /\ calls[c].programAccount = << >>
    /\ Len(calls[c].fetches) >= 1 =>
          calls[c].fetches[1] = Key(calls[c].programId)
    /\ Len(calls[c].fetches) = 2 => LoaderOwned(c)
    /\ calls[c].pc = "programDataAccount" =>
          Len(calls[c].fetches) = 2 /\ calls[c].programDataAccount = << >>
    /\ calls[c].programDataAccount # << >> =>
          Len(calls[c].fetches) = 2 /\ Returned(c)
    /\ ( /\ calls[c].programAccount # << >>
         /\ \/ ~calls[c].programAccount[1].present
            \/ calls[c].programAccount[1].owner # BPF_UPGRADEABLE_LOADER_ID )
       => Len(calls[c].fetches) = 1 /\ Returned(c)

\* C14: a call issues at most two fetches, one after the other, the first
\* for the program; the second only after the first returned a present
\* account of the upgradeable loader carrying the Program tag; a call whose
\* first account is absent, not of the loader or wrongly tagged issues
\* exactly one fetch; nothing is fetched again after an absent account.
C14_AtMostTwoFetchesInOrder ==
    \A c \in CallIds :
        /\ FetchOrder(c)
        /\ Len(calls[c].fetches) = 2 => ProgramTagged(calls[c].programAccount[1])
        /\ (LoaderOwned(c) /\ ~ProgramTagged(calls[c].programAccount[1]))
           => Len(calls[c].fetches) = 1 /\ Returned(c)

\* the call on the account tagged 02 01 00 00 is waiting for its second
\* fetch
C14_Witness ==
    \E c \in CallIds :
        /\ calls[c].programId = WideTagProgram
        /\ LoaderOwned(c)
        /\ ~ProgramTagged(calls[c].programAccount[1])
        /\ calls[c].pc = "programDataAccount"
        /\ Len(calls[c].fetches) = 2

\* the first account of call c has been fetched and the upgradeable loader
\* does not own it
Direct(c) ==
    /\ calls[c].programAccount # << >>
    /\ calls[c].programAccount[1].present
    /\ calls[c].programAccount[1].owner # BPF_UPGRADEABLE_LOADER_ID

\* C15: a call on an account that the upgradeable loader does not own hands
\* the account's data to the search unchanged and complete, whatever its
\* first bytes and its length, fetches nothing else and raises no error.
C15_DirectDataIsSearchedWhole ==
    \A c \in CallIds :
        Direct(c) =>
            /\ Returned(c)
            /\ calls[c].programData = <<calls[c].programAccount[1].data>>
            /\ calls[c].securityInfo # << >>
            /\ calls[c].result.status \in {"success", "warning"}
            /\ Len(calls[c].fetches) = 1
            /\ calls[c].programDataAccount = << >>

\* a direct account that starts with the bytes of the Program tag has been
\* searched from its first byte, and an empty one has been searched too
C15_Witness ==
    \E c, d \in CallIds :
        /\ Direct(c) /\ Returned(c)
        /\ calls[c].programId = DirectTagged
        /\ SubSeq(calls[c].programData[1], 1, 4) = ProgramTag
        /\ calls[c].result.status = "success"
        /\ calls[c].securityInfo[1] = SetField(EmptyInfo, "contact", "a@b.io")
        /\ Direct(d) /\ Returned(d)
        /\ calls[d].programData = << << >> >>
        /\ calls[d].result.status = "warning"

\* C16: in a call that has fetched a second account, on a Program account
\* of at least 36 bytes, the address fetched second is bytes 4..35 of the
\* data of the first account; the bytes searched are the data of the
\* program-data account from offset 8 to its end, and the mapping returned
\* is the one found in those bytes, so that text in the first 8 bytes is
\* not matched and text from offset 8 on is.
C16_AddressAndImageOffsets ==
    \A c \in CallIds :
        (LoaderOwned(c) /\ Len(calls[c].fetches) = 2
            /\ Len(calls[c].programAccount[1].data) >= 36)
        => /\ calls[c].fetches[2] = SubSeq(calls[c].programAccount[1].data, 5, 36)
           /\ ( calls[c].programDataAccount # << >>
                /\ calls[c].programDataAccount[1].present )
              => LET data == calls[c].programDataAccount[1].data
                 IN  /\ calls[c].programData = <<SubSeq(data, 9, Len(data))>>
                     /\ calls[c].securityInfo =
                            <<findAndParseSecurityTxt(SubSeq(data, 9, Len(data)))>>

\* the 'contact:' that fills the 8-byte header of one program-data account
\* has not been matched, and the block that follows the header of another
\* has been
C16_Witness ==
    \E c, d \in CallIds :
        /\ Returned(c) /\ calls[c].programId = HeaderTextProgram
        /\ calls[c].fetches = <<Key(HeaderTextProgram), HeaderTextDataKey>>
        /\ calls[c].programDataAccount # << >>
        /\ SubSeq(calls[c].programDataAccount[1].data, 1, 8) = TextEncode("contact:")
        /\ calls[c].programData = <<TextEncode(" ops@example.com\n")>>
        /\ calls[c].securityInfo = <<EmptyInfo>>
        /\ Returned(d) /\ calls[d].programId = Upgradeable
        /\ calls[d].programData = <<StandardImage>>
        /\ calls[d].securityInfo # << >>
        /\ "contact" \in DOMAIN calls[d].securityInfo[1]
        /\ calls[d].securityInfo[1]["contact"] = "mailto:sec@example.com"

\* the end of a call run alone with the identity and the fetch outcomes of
\* call c: the result it returns and the mapping it gets
Alone(c) ==
    LET programPubkey == PublicKeyOfString(calls[c].programId)
        End(step) ==
            IF step.kind = "throw"
            THEN [result |-> HandlerCatch(step.message), securityInfo |-> << >>]
            ELSE [result |-> HandlerReturn(step.info), securityInfo |-> <<step.info>>]
    IN  IF programPubkey = << >>
        THEN End(Throw(PublicKeyError(calls[c].programId)))
        ELSE IF calls[c].programAccount = << >>
        THEN End(Throw(TransportError))
        ELSE LET first == AfterProgramAccount(getAccountInfo(programPubkey[1]))
             IN  IF first.kind # "await" THEN End(first)
                 ELSE IF calls[c].programDataAccount = << >>
                 THEN End(Throw(TransportError))
                 ELSE End(AfterProgramDataAccount(getAccountInfo(first.address)))

\* C23: whatever the other call does and wherever it stands, a call that
\* has returned has the result and the mapping of the same call run alone
\* on the same accounts with the same fetch outcomes.
C23_CallsDoNotInterfere ==
    \A c \in CallIds :
        Returned(c) =>
            /\ calls[c].result = Alone(c).result
            /\ calls[c].securityInfo = Alone(c).securityInfo

\* two calls on two upgradeable programs are under way together: one waits
\* for its program-data account, the other has returned what is in its own
C23_Witness ==
    \E c, d \in CallIds :
        /\ calls[c].programId = UpgradeablePlain
        /\ calls[c].pc = "programDataAccount"
        /\ calls[d].programId = Upgradeable
        /\ Returned(d)
        /\ calls[d].programDataAccount = <<getAccountInfo(ProgramDataKey)>>
        /\ calls[d].result.status = "success"
        /\ calls[d].result = Alone(d).result

---------------------------------------------------------------------------
(* Properties of the search of an image, checked under SpecText            *)

Searched == status # ""

Mentions(low, lit) == \E p \in 1..Len(low) : LooksAt(low, p, lit)

\* The text has a 'Contact: ' line outside a standard block whose group is
\* text[span[1] .. span[2] - 1]: after the group, or before the header line,
\* which is at most 15 characters long.
ContactLineOutside(text, span) ==
    LET low == toLowerCase(text)
    IN  \E p \in 1..Len(text) :
            /\ LooksAt(low, p, "contact: ")
            /\ Char(text, p + 9) \notin {"", "\n"}
            /\ (p >= span[2] \/ p + 9 <= span[1] - 15)

\* C1: when the decoded image has a standard block with a non-empty body,
\* the mapping found is the parse of that body and nothing else, whatever a
\* later matcher would find elsewhere in the image, a 'Contact:' line
\* included.
C1_StandardBlockDecides ==
    Searched =>
        LET text == TextDecode(image)
            span == StandardSpan(text)
        IN  (span # << >> /\ span[2] > span[1]) =>
                found = parseSecurityTxt(SubSeq(text, span[1], span[2] - 1))

C1_Witness ==
    /\ Searched
    /\ LET text == TextDecode(image)
           span == StandardSpan(text)
       IN  /\ span # << >> /\ span[2] > span[1]
           /\ ContactLineOutside(text, span)
           /\ found = parseSecurityTxt(SubSeq(text, span[1], span[2] - 1))
           /\ DOMAIN found = {"expires"}

\* no pattern of the cascade or of the scanner can match a text that has
\* none of these, upper case or lower case
Recognisable ==
    { "security.txt", "contact:", "mailto:", "security@", "/security",
      "/responsible-disclosure", "/vulnerability", "begin pgp" }

NothingRecognisable(text) ==
    LET low == toLowerCase(text)
    IN  \A lit \in Recognisable : ~Mentions(low, lit)

\* C4: for an image with no standard block, no delimited block, no
\* Contact:, Security-Contact: or mailto: field, no security@ address, no
\* security URL and no PGP block, the search returns the empty mapping and
\* the handler's status is 'warning'.
C4_NothingFoundIsAWarning ==
    (Searched /\ NothingRecognisable(TextDecode(image))) =>
        /\ found = EmptyInfo
        /\ status = "warning"

C4_Witness ==
    /\ Searched
    /\ NothingRecognisable(TextDecode(image))
    /\ Mentions(TextDecode(image), "ops@x.io")
    /\ found = EmptyInfo
    /\ status = "warning"

\* the matches of the five categories, in the order of their priority
Categories(text) ==
    << MatchAll(SecurityEmailEnd, text, 1),
       MatchAll(MailtoUriEnd, text, 1),
       MatchAll(SecurityUrlEnd, text, 1),
       MatchAll(DisclosureUrlEnd, text, 1),
       MatchAll(VulnerabilityUrlEnd, text, 1) >>

\* C8: the scanner's contact is the first match in the text of the first
\* category, in the order security@ address, mailto: URI, /security URL,
\* /responsible-disclosure URL, /vulnerability URL, that has a match; there
\* is no contact when no category has one.
C8_ContactByCategory ==
    scanned # << >> =>
        LET cats  == Categories(TextDecode(image))
            first == { k \in 1..5 : cats[k] # << >> }
        IN  IF first = {} THEN "contact" \notin DOMAIN scanned[1]
            ELSE /\ "contact" \in DOMAIN scanned[1]
                 /\ scanned[1]["contact"] = cats[Min(first)][1]

\* a /security URL stands before the first security@ address, and the
\* address is the contact
C8_Witness ==
    /\ scanned # << >>
    /\ LET text   == TextDecode(image)
           emails == { p \in 1..Len(text) : SecurityEmailEnd(text, p) # 0 }
           urls   == { p \in 1..Len(text) : SecurityUrlEnd(text, p) # 0 }
       IN  /\ emails # {} /\ urls # {}
           /\ Min(urls) < Min(emails)
           /\ "contact" \in DOMAIN scanned[1]
           /\ scanned[1]["contact"] = "security@example.org"

\* neither block form is in the text
NoBlockForm(text) == StandardSpan(text) = << >> /\ DelimitedBlock(text) = NoMatch

\* the trimmed values of the lines of the text that begin with the label,
\* in the order of the lines
ValuesOfLinesBeginning(text, label) ==
    LET lines == split(text)
        Piece(ls, i) ==
            IF LooksAt(ls[i], 1, label)
            THEN <<trim(SubSeq(ls[i], Len(label) + 1, Len(ls[i])))>>
            ELSE << >>
    IN  Join(Piece, lines, 1, Len(lines))

OnlyContact(value) == SetField(EmptyInfo, "contact", value)

\* C17: when neither block form is in the text, the mapping found holds the
\* value of the first line that begins 'Contact:' when there is one, the
\* value of the first line that begins 'Security-Contact:' when there is no
\* 'Contact:' line, and the address of the first mailto: URI when there is
\* neither.
C17_ContactLineHasPriority ==
    (Searched /\ NoBlockForm(TextDecode(image))) =>
        LET text     == TextDecode(image)
            contacts == ValuesOfLinesBeginning(text, "Contact:")
            security == ValuesOfLinesBeginning(text, "Security-Contact:")
        IN  IF contacts # << >> THEN found = OnlyContact(contacts[1])
            ELSE IF security # << >> THEN found = OnlyContact(security[1])
            ELSE MailtoField(text) # NoMatch => found = OnlyContact(MailtoField(text)[1])

\* a 'Security-Contact:' line stands before the 'Contact:' line, and its
\* value is the contact found
C17_Witness ==
    /\ Searched
    /\ image = TextEncode("Security-Contact: eve@y.org\n") \o TextEncode("\nContact: bob@x.io\n")
    /\ ValuesOfLinesBeginning(TextDecode(image), "Contact:") = <<"bob@x.io">>
    /\ found = OnlyContact("eve@y.org")

\* the text has a block of one of the two forms with something in it
BlockMatched(text) ==
    \/ StandardBlock(text) # NoMatch /\ StandardBlock(text)[1] # ""
    \/ DelimitedBlock(text) # NoMatch /\ DelimitedBlock(text)[1] # ""

\* C18: the scanner decides the mapping only when none of the three
\* matchers matched; a mapping produced by the single-field matcher has the
\* one key contact, with the trimmed value of the match; a mapping produced
\* by any of the three matchers does not carry the scanner's encryption
\* value, even when the text holds a PGP block.
C18_ScannerOnlyAsLastResort ==
    Searched =>
        LET text    == TextDecode(image)
            field   == SingleField(text)
            matched == BlockMatched(text) \/ field # NoMatch
        IN  /\ ~matched => found = extractSecurityInfoFromText(text)
            /\ matched =>
                  \/ "encryption" \notin DOMAIN found
                  \/ found["encryption"] # PgpSentinel
            /\ (~BlockMatched(text) /\ field # NoMatch) =>
                  /\ DOMAIN found = {"contact"}
                  /\ found["contact"] = trim(field[1])
                  /\ found["contact"] = trim(found["contact"])

\* a PGP block stands before a 'Contact:' line whose value has spaces
\* around it: the scanner alone finds the key, the search returns the
\* trimmed contact and nothing else
C18_Witness ==
    /\ Searched
    /\ scanned # << >>
    /\ PgpBlockPresent(TextDecode(image))
    /\ SingleField(TextDecode(image)) = <<" carol@z.io ">>
    /\ scanned[1] = SetField(EmptyInfo, "encryption", PgpSentinel)
    /\ found = OnlyContact("carol@z.io")

\* the text has a BEGIN marker of a PGP public key and, after it, an END
\* marker
CompletePgpBlock(text) ==
    LET begins == { p \in 1..Len(text) : LooksAt(text, p, PgpBegin) }
        ends   == { k \in 1..Len(text) : LooksAt(text, k, PgpEnd) }
    IN  begins # {} /\ ends # {} /\ Min(begins) + Len(PgpBegin) <= Max(ends)

\* C19: the mapping of the scanner has the key encryption exactly when the
\* text holds a complete PGP block, whether or not it has a contact; its
\* value is the fixed sentinel, and no value of the mapping holds the key
\* material; the search of a text with a PGP block and nothing else that a
\* pattern matches returns the mapping of the sentinel alone, with status
\* 'success'.
C19_EncryptionIffPgpBlock ==
    LET text == TextDecode(image)
    IN  /\ scanned # << >> =>
              /\ DOMAIN scanned[1] \subseteq {"contact", "encryption"}
              /\ "encryption" \in DOMAIN scanned[1] <=> CompletePgpBlock(text)
              /\ "encryption" \in DOMAIN scanned[1] =>
                     scanned[1]["encryption"] = PgpSentinel
              /\ "contact" \in DOMAIN scanned[1] <=> ContactMatches(text) # << >>
              /\ \A key \in DOMAIN scanned[1] : ~Mentions(scanned[1][key], "mQENBF")
        /\ ( /\ Searched
             /\ CompletePgpBlock(text)
             /\ ~BlockMatched(text) /\ SingleField(text) = NoMatch
             /\ ContactMatches(text) = << >> )
           => found = SetField(EmptyInfo, "encryption", PgpSentinel)
              /\ status = "success"

\* an image with the PGP block and no contact, searched and scanned
C19_Witness ==
    /\ Searched
    /\ scanned # << >>
    /\ Mentions(TextDecode(image), "mQENBF")
    /\ ContactMatches(TextDecode(image)) = << >>
    /\ scanned[1] = SetField(EmptyInfo, "encryption", PgpSentinel)
    /\ found = scanned[1]
    /\ status = "success"

FieldlessStandardBlock(text) ==
    /\ StandardBlock(text) # NoMatch
    /\ StandardBlock(text)[1] # ""
    /\ ~Mentions(StandardBlock(text)[1], ":")

\* what the stages after the standard block would find in the text
LaterStages(text) ==
    IF DelimitedBlock(text) # NoMatch /\ DelimitedBlock(text)[1] # ""
    THEN parseSecurityTxt(DelimitedBlock(text)[1])
    ELSE IF SingleField(text) # NoMatch
    THEN OnlyContact(trim(SingleField(text)[1]))
    ELSE extractSecurityInfoFromText(text)

\* C24: when the standard block matcher captures a non-empty block none of
\* whose lines is a field, the mapping found is empty and the handler's
\* status is 'warning', whatever a later stage would find in the text.
C24_FieldlessBlockStopsTheCascade ==
    (Searched /\ FieldlessStandardBlock(TextDecode(image))) =>
        /\ found = EmptyInfo
        /\ status = "warning"

\* a 'Contact:' line follows the block without a field: the later stages
\* would give the contact, the search gives nothing
C24_Witness ==
    /\ Searched
    /\ FieldlessStandardBlock(TextDecode(image))
    /\ StandardBlock(TextDecode(image)) = <<"no field here">>
    /\ LaterStages(TextDecode(image)) = OnlyContact("bob@x.io")
    /\ found = EmptyInfo
    /\ status = "warning"

---------------------------------------------------------------------------
(* Properties of the two block forms, checked under SpecForms              *)

\* the key, folded, and the value, trimmed, each line of FieldLines stands
\* for
StatedPair(line) ==
    CASE line = "contact: mailto:sec@example.com" -> <<"contact", "mailto:sec@example.com">>
      [] line = "expires: 2025-01-01"             -> <<"expires", "2025-01-01">>
      [] line = "preferred-languages: en"         -> <<"preferredLanguages", "en">>
      [] line = "Preferred-Languages:  fr "       -> <<"preferredLanguages", "fr">>
      [] line = "a-b-c:1"                         -> <<"aBC", "1">>
      [] line = "contact: bob@x.io"               -> <<"contact", "bob@x.io">>
      [] line = "policy: https://x.io/p\r"        -> <<"policy", "https://x.io/p">>

StatedKeys(lines) == { StatedPair(lines[i])[1] : i \in 1..Len(lines) }

\* the lines that count: those that do not end in a carriage return
Counted(lines) == { i \in 1..Len(lines) : Char(lines[i], Len(lines[i])) # "\r" }

CountedKeys(lines) == { StatedPair(lines[i])[1] : i \in Counted(lines) }

\* the value of the last line that counts and has the key
LastValue(lines, key) ==
    StatedPair(lines[Max({ i \in Counted(lines) : StatedPair(lines[i])[1] = key })])[2]

C3_FormatIndependence ==
    (extracted["standard"] # << >> /\ extracted["delimited"] # << >>) =>
        extracted["standard"] = extracted["delimited"]

C3_Witness ==
    /\ extracted["standard"] # << >>
    /\ extracted["standard"] = extracted["delimited"]
    /\ Len(block.lines) = 2
    /\ DOMAIN extracted["standard"][1] = {"contact", "aBC"}

---------------------------------------------------------------------------
(* Properties of the GET_TRANSACTION_HISTORY handler, checked under        *)
(* SpecHistory                                                              *)

\* the call had an address that is a public key and no other parameter, and
\* its fetch succeeded
PlainHistoryCall ==
    /\ history.pc = "returned"
    /\ history.result[1].status = "success"
    /\ history.params[1].limit = << >>
    /\ history.params[1].before = << >>
    /\ history.params[1].until = << >>
    /\ history.params[1].types = << >>

\* C11: a call with a valid address and no limit, before, until or types
\* whose fetch succeeds returns the message of the first documented
\* example, 'Successfully retrieved transaction history'.
C11_DefaultMessageIsTheExample ==
    PlainHistoryCall =>
        history.result[1].message = "Successfully retrieved transaction history"

\* the call of the first example returns the message of the default limit
C11_Witness ==
    /\ PlainHistoryCall
    /\ history.params[1].address = <<"8zFZHuSRuDpuAR7J6FzwyF3vKNx4CVW3DFHJerQhc7Zd">>
    /\ history.result[1].message = "Successfully retrieved 10 most recent transactions"

---------------------------------------------------------------------------
(* Properties of parseSecurityTxt, checked under SpecParse                 *)

\* the lines the normalizer is said to keep: not blank, not a comment, with
\* a colon after at least one character
Remaining(lines) ==
    { i \in 1..Len(lines) :
         /\ trim(lines[i]) # ""
         /\ ~LooksAt(trim(lines[i]), 1, "#")
         /\ \E k \in 2..Len(lines[i]) : Char(lines[i], k) = ":" }

FirstColon(line) == Min({ k \in 1..Len(line) : Char(line, k) = ":" })

\* the field before the first colon, trimmed and normalised, and the value
\* after it, trimmed
FieldOf(line) == camelCase(toLowerCase(trim(SubSeq(line, 1, FirstColon(line) - 1))))
ValueOf(line) == trim(SubSeq(line, FirstColon(line) + 1, Len(line)))

\* C20: the mapping returned for any content has the fields of the lines
\* that are not blank, are not comments and have a colon, each split at its
\* first colon, with field and value trimmed (the last line of a field
\* decides); every other line is skipped and a result is always returned,
\* the empty mapping when no line remains.
C20_SplitAtFirstColon ==
    parsed.result # << >> =>
        LET lines == parsed.lines
            info  == parsed.result[1]
        IN  /\ DOMAIN info = { FieldOf(lines[i]) : i \in Remaining(lines) }
            /\ \A i \in Remaining(lines) :
                  (\A j \in Remaining(lines) :
                       j > i => FieldOf(lines[j]) # FieldOf(lines[i]))
                  => info[FieldOf(lines[i])] = ValueOf(lines[i])

\* a line with a colon that ends in a carriage return has been skipped,
\* and the line before it, whose value has colons, has been kept whole
C20_Witness ==
    /\ parsed.result # << >>
    /\ parsed.lines = <<"contact: mailto:a@b.c", "expires: 2025-01-01\r">>
    /\ Remaining(parsed.lines) = {1, 2}
    /\ parsed.result[1] = SetField(EmptyInfo, "contact", "mailto:a@b.c")

\* the key transform of security.ts:143-146 on a field name
KeyOf(field) == camelCase(toLowerCase(field))

\* C21: the key transform folds every '-<letter>' of a name (a-b-c gives
\* aBC) and gives back every key it has produced: each key of the mapping
\* returned is its own transform, and a line whose field is written as the
\* key of another line's field lands under that key.
C21_KeyTransformIdempotent ==
    parsed.result # << >> =>
        /\ KeyOf("a-b-c") = "aBC"
        /\ \A key \in DOMAIN parsed.result[1] : KeyOf(key) = key
        /\ \A i, j \in Remaining(parsed.lines) :
              LET written == trim(SubSeq(parsed.lines[i], 1,
                                         FirstColon(parsed.lines[i]) - 1))
              IN  written = FieldOf(parsed.lines[j])
                      => FieldOf(parsed.lines[i]) = written

\* the two spellings of one field have landed under two keys
C21_Witness ==
    /\ parsed.result # << >>
    /\ parsed.lines = <<"preferred-languages:en", "preferredLanguages: fr">>
    /\ KeyOf("preferredLanguages") = "preferredlanguages"
    /\ parsed.result[1] =
           SetField(SetField(EmptyInfo, "preferredLanguages", "en"),
                    "preferredlanguages", "fr")

---------------------------------------------------------------------------
(* Properties of the GET_PRIORITY_FEE_ESTIMATE handler, checked under      *)
(* SpecFee                                                                  *)

\* the request has failed or its answer has no fee levels
FailedRequest(response) ==
    \/ response.kind \in {"rejected", "notJson", "null"}
    \/ /\ response.kind = "data"
       /\ \/ response.error # << >>
          \/ response.result = << >>
          \/ response.result[1].priorityFeeLevels = << >>

\* C25: the handler returns 'success' with an estimate whatever the params
\* and whatever the request settles to; when the request fails, answers
\* with an error object, or answers without a result or without fee
\* levels, the estimate is the fixed default one: low 1000, medium 10000,
\* high 100000, suggested 10000.
C25_EstimateNeverFails ==
    fee.pc = "returned" =>
        LET r == fee.result[1]
        IN  /\ r.status = "success"
            /\ r.estimate # << >>
            /\ FailedRequest(r.response) =>
                  /\ r.estimate = <<getDefaultPriorityFees>>
                  /\ r.estimate[1].low = 1000
                  /\ r.estimate[1].medium = 10000
                  /\ r.estimate[1].high = 100000
                  /\ r.estimate[1].suggested = 10000

\* the transaction method with a serialized transaction, the answer an
\* error object: the default estimate, with 'success'
C25_Witness ==
    /\ fee.pc = "returned"
    /\ fee.via = "transaction"
    /\ fee.result[1].response.kind = "data"
    /\ fee.result[1].response.error = <<"Method not found">>
    /\ fee.result[1].status = "success"
    /\ fee.result[1].estimate = <<getDefaultPriorityFees>>
    /\ fee.result[1].message =
           "Successfully estimated priority fees using transaction method"

---------------------------------------------------------------------------
(* Properties of the start of the process, checked under SpecStartup       *)

\* the required variables of the environment that are not set or are empty
Missing(env) ==
    { name \in {"SOLANA_PRIVATE_KEY", "RPC_URL"} : env[name] \in { << >>, <<"">> } }

\* C26: the agent is constructed and the server is started only after
\* validateEnvironment has passed, the server only once the agent is
\* there; when SOLANA_PRIVATE_KEY or RPC_URL is not set or is empty the
\* first step of main ends the process with exit code 1 and an error that
\* names every missing variable, and neither the agent nor the server is
\* ever there.
C26_ValidatedBeforeStart ==
    LET env == startup.env[1]
    IN  /\ startup.agent # << >> => startup.validated
        /\ startup.started => startup.agent # << >>
        /\ startup.validated => Missing(env) = {}
        /\ startup.pc = "exited" => startup.exitCode = <<1>>
        /\ startup.pc # "exited" => startup.exitCode = << >>
        /\ Missing(env) # {} =>
              /\ startup.pc \in {"main", "exited"}
              /\ startup.agent = << >>
              /\ ~startup.started
              /\ startup.pc = "exited" =>
                    \A name \in Missing(env) : Mentions(startup.error, name)

\* both variables are missing, one not set and one empty: the process has
\* exited and the error names the two
C26_Witness ==
    /\ startup.pc = "exited"
    /\ startup.env[1].SOLANA_PRIVATE_KEY = << >>
    /\ startup.env[1].RPC_URL = <<"">>
    /\ startup.exitCode = <<1>>
    /\ startup.error =
           "Missing required environment variables: SOLANA_PRIVATE_KEY, RPC_URL"
    /\ ~startup.started

===========================================================================
